---- MODULE Spec2Model ----
(***************************************************************************)
(* A state-machine model of the in-memory virtual file system of           *)
(* src/harness/vfs.ts: inodes with hard-link accounting, the path walker,  *)
(* shadow (copy-on-write) file systems, and the open-file table with its   *)
(* per-descriptor buffers.                                                 *)
(*                                                                         *)
(* Objects are modelled by identity.  An inode object is the pair          *)
(* (file system, ino): a shadow inode carries the ino of the inode it      *)
(* shadows but lives in the child file system.  A Buffer object is an id   *)
(* into the heap `bufs`; two references are the same JavaScript object     *)
(* exactly when the ids are equal.  Buffers no reference reaches are       *)
(* dropped (the runtime is garbage collected).                             *)
(***************************************************************************)
EXTENDS Integers, Sequences, FiniteSets, TLC

VARIABLES fs, inodes, bufs, devCount, inoCount, fdCount, clock, ret

vars == <<fs, inodes, bufs, devCount, inoCount, fdCount, clock, ret>>

(***************************************************************************)
(* Bounds of the model.                                                    *)
(***************************************************************************)
MaxIno == 3
MaxFd == 2
MaxLen == 2
MaxTime == 1
MaxDrift == 0
MaxOpen == 1

MaxStack == 1

(***************************************************************************)
(* Program constants.                                                      *)
(***************************************************************************)
S_IFMT == 61440
S_IFLNK == 40960
S_IFREG == 32768
S_IFDIR == 16384

O_ACCMODE == 3
O_RDONLY == 0
O_WRONLY == 1
O_RDWR == 2
O_CREAT == 64
O_EXCL == 128
O_TRUNC == 512
O_APPEND == 1024
O_SYNC == 4096
O_DIRECTORY == 65536
O_NOFOLLOW == 131072

F_OK == 0
W_OK == 2
R_OK == 4

LoopBudget == 40

(***************************************************************************)
(* Bitwise operators on naturals (JavaScript &, |, & ~).  The masks the    *)
(* program tests most often get closed forms: a single bit, the low bits   *)
(* below a power of two, and the type bits of a 16-bit mode.               *)
(***************************************************************************)
RECURSIVE BitAnd(_, _)
BitAnd(a, b) ==
    IF a = 0 \/ b = 0 THEN 0
    ELSE (a % 2) * (b % 2) + 2 * BitAnd(a \div 2, b \div 2)

BitOr(a, b) == a + b - BitAnd(a, b)

BitAndNot(a, b) == a - BitAnd(a, b)

\* flags & bit # 0, for a mask of one bit
Has(flags, bit) == (flags \div bit) % 2 = 1

\* flags | bit, for a mask of one bit
With(flags, bit) == IF Has(flags, bit) THEN flags ELSE flags + bit

\* mode & S_IFMT: the four bits above the twelve permission bits
TypeBits(mode) == (mode \div 4096) * 4096

\* mode & 0o7777
PermBits(mode) == mode % 4096

\* flags & O_ACCMODE
AccMode(flags) == flags % 4

(***************************************************************************)
(* Paths.  A path is the sequence of its components as vpath.parse gives   *)
(* them: the root "/" first, then one name per level.  A symlink target is *)
(* such a sequence too; it is absolute when it starts with the root.       *)
(***************************************************************************)
Names == {"a", "b"}
RootName == "/"
NoName == ""
AllNames == Names \cup {RootName, NoName}

Paths == {<<RootName>>, <<RootName, "a">>, <<RootName, "b">>, <<RootName, "a", "b">>}

IsAbsolute(p) == Len(p) > 0 /\ p[1] = RootName

Dirname(p) == IF Len(p) <= 1 THEN p ELSE SubSeq(p, 1, Len(p) - 1)

Basename(p) == IF Len(p) <= 1 THEN NoName ELSE p[Len(p)]

Resolve(dirname, p) == IF IsAbsolute(p) THEN p ELSE dirname \o p

(***************************************************************************)
(* The external file system behind a mount: one directory with one file.   *)
(***************************************************************************)
ExtSource == <<"src">>
ExtFileData == <<1>>

ExtReaddir(source) == IF source = ExtSource THEN {"a"} ELSE {}

ExtStat(path) ==
    IF path = ExtSource THEN [mode |-> S_IFDIR, size |-> 0]
    ELSE [mode |-> S_IFREG, size |-> Len(ExtFileData)]

ExtReadFile(path) == ExtFileData

(***************************************************************************)
(* Records.                                                                *)
(***************************************************************************)
NoLinks == [n \in AllNames |-> 0]
NoIncoming == [k \in 0..MaxIno |-> {}]
\* The calls the resolver of a mount has seen (counted while one call of the
\* file system runs).
NoCalls == [readdirSync |-> 0, statSync |-> 0, readFileSync |-> 0]

NoSource == <<>>

NewFs ==
    [live |-> FALSE, frozen |-> FALSE, shadowRoot |-> 0,
     hasLinks |-> FALSE, links |-> NoLinks,
     cwd |-> <<>>, dirStack |-> <<>>, openFiles |-> <<>>]

\* isReadonly that never sees the freeze.
NeverReadonly(w, f) == FALSE

IsReadonly(w, f) == w.fs[f].frozen

Time(w) == w.clock

isFileInode(node) == TypeBits(node.mode) = S_IFREG

isDirectoryInode(node) == TypeBits(node.mode) = S_IFDIR

isSymlinkInode(node) == TypeBits(node.mode) = S_IFLNK

isReadable(file) == AccMode(file.flags) # O_WRONLY

isWritable(file) == AccMode(file.flags) # O_RDONLY

Node(w, f, i) == w.inodes[f][i]

SetNode(w, f, i, node) == [w EXCEPT !.inodes[f] = (i :> node) @@ @]

NoStat == [dev |-> 0, ino |-> 0, mode |-> 0, nlink |-> 0, size |-> 0,
           atimeMs |-> 0, mtimeMs |-> 0, ctimeMs |-> 0, birthtimeMs |-> 0]

\* The outcome of a call: the error code ("OK": none) and what it returned.
Ret(w, op, f, err) ==
    [w EXCEPT !.ret = [op |-> op, fs |-> f, err |-> err, n |-> 0, data |-> <<>>,
                       stat |-> NoStat, names |-> {}]]

RetVal(w, op, f, n, data) ==
    [w EXCEPT !.ret = [op |-> op, fs |-> f, err |-> "OK", n |-> n, data |-> data,
                       stat |-> NoStat, names |-> {}]]

(***************************************************************************)
(* _mknod: a fresh inode, not yet linked anywhere.                         *)
(***************************************************************************)
\* _mknod that does not apply the umask.
MknodUnmasked(w, f, dev, type, mode, umask) ==
    LET ino == w.inoCount + 1
        node == [dev |-> dev, ino |-> ino,
                 mode |-> PermBits(mode) + TypeBits(type),
                 atimeMs |-> Time(w), mtimeMs |-> Time(w),
                 ctimeMs |-> Time(w), birthtimeMs |-> Time(w),
                 nlink |-> 0, shadowRoot |-> FALSE, incomingLinks |-> NoIncoming,
                 hasLinks |-> FALSE, links |-> NoLinks,
                 buffer |-> 0, size |-> -1, symlink |-> <<>>,
                 source |-> NoSource, resolver |-> FALSE]
    IN  SetNode([w EXCEPT !.inoCount = ino], f, ino, node)

Mknod(w, f, dev, type, mode, umask) ==
    LET ino == w.inoCount + 1
        node == [dev |-> dev, ino |-> ino,
                 mode |-> BitAndNot(PermBits(mode), umask) + TypeBits(type),
                 atimeMs |-> Time(w), mtimeMs |-> Time(w),
                 ctimeMs |-> Time(w), birthtimeMs |-> Time(w),
                 nlink |-> 0, shadowRoot |-> FALSE, incomingLinks |-> NoIncoming,
                 hasLinks |-> FALSE, links |-> NoLinks,
                 buffer |-> 0, size |-> -1, symlink |-> <<>>,
                 source |-> NoSource, resolver |-> FALSE]
    IN  SetNode([w EXCEPT !.inoCount = ino], f, ino, node)

(***************************************************************************)
(* Link maps.  A map is named by its owner: 0 is the root map of the file  *)
(* system, any other number the directory inode holding it.                *)
(***************************************************************************)
LinksOf(w, f, d) == IF d = 0 THEN w.fs[f].links ELSE Node(w, f, d).links

SetLinks(w, f, d, map) ==
    IF d = 0 THEN [w EXCEPT !.fs[f].links = map]
    ELSE [w EXCEPT !.inodes[f][d].links = map]

LinksSize(map) == Cardinality({n \in AllNames : map[n] # 0})

AddLink(w, f, parent, d, name, i) ==
    LET w1 == SetLinks(w, f, d, [LinksOf(w, f, d) EXCEPT ![name] = i])
    IN  [w1 EXCEPT !.inodes[f][i].nlink = @ + 1,
                   !.inodes[f][i].incomingLinks[parent] = @ \cup {name}]

RemoveLink(w, f, parent, d, name, i) ==
    LET w1 == SetLinks(w, f, d, [LinksOf(w, f, d) EXCEPT ![name] = 0])
    IN  [w1 EXCEPT !.inodes[f][i].nlink = @ - 1,
                   !.inodes[f][i].incomingLinks[parent] = @ \ {name}]

\* _replaceLink that enters the new name and leaves the old one in place.
ReplaceLinkKeepsOld(w, f, oldParent, oldName, newParent, newName, i) ==
    AddLink(w, f, newParent, newParent, newName, i)

ReplaceLink(w, f, oldParent, oldName, newParent, newName, i) ==
    IF oldParent # newParent
    THEN AddLink(RemoveLink(w, f, oldParent, oldParent, oldName, i),
                 f, newParent, newParent, newName, i)
    ELSE LET map == [[LinksOf(w, f, oldParent) EXCEPT ![oldName] = 0]
                        EXCEPT ![newName] = i]
             w1 == SetLinks(w, f, oldParent, map)
         IN  IF Node(w1, f, i).incomingLinks[oldParent] # {}
             THEN [w1 EXCEPT !.inodes[f][i].incomingLinks[oldParent] =
                                 (@ \ {oldName}) \cup {newName}]
             ELSE w1

(***************************************************************************)
(* The shadow engine: _getShadow, _copyShadowLinks, _getRootLinks and      *)
(* _getLinks.  All of them work on lazily initialised state and so also    *)
(* run on a frozen file system.                                            *)
(***************************************************************************)
\* _getShadow without the map of the shadows made so far: every call makes a
\* new shadow.
GetShadowAnew(w, f, i) ==
    LET root == Node(w, w.fs[f].shadowRoot, i)
        shadow == [root EXCEPT !.shadowRoot = TRUE,
                               !.hasLinks = FALSE, !.links = NoLinks,
                               !.buffer = 0, !.size = -1,
                               !.source = NoSource, !.resolver = FALSE,
                               !.symlink = IF isSymlinkInode(root)
                                           THEN root.symlink ELSE <<>>]
    IN  SetNode(w, f, i, shadow)

RECURSIVE GetShadow(_, _, _)
RECURSIVE ShadowEach(_, _, _)

GetShadow(w, f, i) ==
    IF i \in DOMAIN w.inodes[f] /\ Node(w, f, i).shadowRoot THEN w
    ELSE LET root == Node(w, w.fs[f].shadowRoot, i)
             shadow == [root EXCEPT !.shadowRoot = TRUE,
                                    !.hasLinks = FALSE, !.links = NoLinks,
                                    !.buffer = 0, !.size = -1,
                                    !.source = NoSource, !.resolver = FALSE,
                                    !.symlink = IF isSymlinkInode(root)
                                                THEN root.symlink ELSE <<>>]
         IN  ShadowEach(SetNode(w, f, i, shadow), f,
                        {k \in 1..MaxIno : root.incomingLinks[k] # {}})

ShadowEach(w, f, is) ==
    IF is = {} THEN w
    ELSE LET i == CHOOSE x \in is : TRUE
         IN  ShadowEach(GetShadow(w, f, i), f, is \ {i})

CopyShadowLinks(w, f, source) ==
    ShadowEach(w, f, {source[n] : n \in AllNames} \ {0})

RECURSIVE GetRootLinks(_, _)
GetRootLinks(w, f) ==
    IF w.fs[f].hasLinks THEN w
    ELSE IF w.fs[f].shadowRoot # 0
    THEN LET Copied(w1, p) ==
                 [CopyShadowLinks(w1, f, w1.fs[p].links)
                     EXCEPT !.fs[f].hasLinks = TRUE, !.fs[f].links = w1.fs[p].links]
         IN  Copied(GetRootLinks(w, w.fs[f].shadowRoot), w.fs[f].shadowRoot)
    ELSE [w EXCEPT !.fs[f].hasLinks = TRUE, !.fs[f].links = NoLinks]

\* The loop body of _getLinks over resolver.readdirSync(source).
RECURSIVE MountEntries(_, _, _, _, _)
MountEntries(w, f, i, source, names) ==
    IF names = {} THEN w
    ELSE LET name == CHOOSE x \in names : TRUE
             path == source \o <<name>>
             stats == ExtStat(path)
             type == TypeBits(stats.mode)
             asked == [w EXCEPT !.calls.statSync = @ + 1]
             Entered(w1) ==
                 AddLink([w1 EXCEPT !.inodes[f][w1.inoCount].source = path,
                                    !.inodes[f][w1.inoCount].resolver = TRUE,
                                    !.inodes[f][w1.inoCount].size =
                                        IF type = S_IFREG THEN stats.size ELSE @],
                         f, i, i, name, w1.inoCount)
         IN  IF type \in {S_IFDIR, S_IFREG}
             THEN MountEntries(Entered(Mknod(asked, f, Node(w, f, i).dev, type,
                                             IF type = S_IFDIR THEN 511 ELSE 438, 18)),
                               f, i, source, names \ {name})
             ELSE MountEntries(asked, f, i, source, names \ {name})

\* _getLinks that keeps the source of a mount directory and asks the resolver
\* on every call.
GetLinksAsksAgain(w, f, i) ==
    IF i = 0 THEN GetRootLinks(w, f)
    ELSE IF Node(w, f, i).source # NoSource /\ Node(w, f, i).resolver
    THEN [MountEntries([w EXCEPT !.calls.readdirSync = @ + 1,
                                 !.inodes[f][i].links = NoLinks],
                       f, i, Node(w, f, i).source, ExtReaddir(Node(w, f, i).source))
             EXCEPT !.inodes[f][i].hasLinks = TRUE]
    ELSE [w EXCEPT !.inodes[f][i].hasLinks = TRUE]

RECURSIVE GetLinks(_, _, _)
GetLinks(w, f, i) ==
    IF i = 0 THEN GetRootLinks(w, f)
    ELSE IF Node(w, f, i).hasLinks THEN w
    ELSE LET node == Node(w, f, i)
             Listed(w2) == [w2 EXCEPT !.inodes[f][i].hasLinks = TRUE]
             Copied(w1, p) ==
                 [CopyShadowLinks(w1, f, Node(w1, p, i).links)
                     EXCEPT !.inodes[f][i].hasLinks = TRUE,
                            !.inodes[f][i].links = Node(w1, p, i).links]
         IN  IF node.source # NoSource /\ node.resolver
             THEN Listed(MountEntries([w EXCEPT !.inodes[f][i].source = NoSource,
                                                !.inodes[f][i].resolver = FALSE,
                                                !.calls.readdirSync = @ + 1],
                                      f, i, node.source, ExtReaddir(node.source)))
             ELSE IF w.fs[f].shadowRoot # 0 /\ node.shadowRoot
             THEN Copied(GetLinks(w, w.fs[f].shadowRoot, i), w.fs[f].shadowRoot)
             ELSE [w EXCEPT !.inodes[f][i].hasLinks = TRUE]

(***************************************************************************)
(* _invalidatePaths walks the whole subtree of a node (materialising every *)
(* directory below it).  On a directory graph with a cycle the recursion   *)
(* never returns and the call ends in a stack overflow (RangeError);       *)
(* `stack` holds the directories of the current recursion.                 *)
(***************************************************************************)
NameOrder == <<NoName, RootName, "a", "b">>

RECURSIVE InvalidatePaths(_, _, _, _)
RECURSIVE InvalidateFrom(_, _, _, _, _)

InvalidatePaths(w, f, i, stack) ==
    IF i \in stack THEN [w |-> w, overflow |-> TRUE]
    ELSE IF ~isDirectoryInode(Node(w, f, i)) THEN [w |-> w, overflow |-> FALSE]
    ELSE InvalidateFrom(GetLinks(w, f, i), f, i, 1, stack \cup {i})

InvalidateFrom(w, f, i, k, stack) ==
    IF k > Len(NameOrder) THEN [w |-> w, overflow |-> FALSE]
    ELSE LET child == Node(w, f, i).links[NameOrder[k]]
         IN  IF child = 0 THEN InvalidateFrom(w, f, i, k + 1, stack)
             ELSE LET r == InvalidatePaths(w, f, child, stack)
                  IN  IF r.overflow THEN r
                      ELSE InvalidateFrom(r.w, f, i, k + 1, stack)

(***************************************************************************)
(* _walk: POSIX path resolution.  `d` names the link map being searched,   *)
(* `parent` the directory passed last (0: none yet), `step` is 1-based.    *)
(***************************************************************************)
Lookup(map, name) == IF name \in AllNames THEN map[name] ELSE 0

\* The variables of the loop in _walk, and its outcome once `kind` is set
\* ("ok": found, "none": undefined, "err": thrown).
WalkState(w, kind, err, d, parent, components, step, depth, node) ==
    [w |-> w, kind |-> kind, err |-> err, d |-> d, parent |-> parent,
     components |-> components, step |-> step, depth |-> depth, node |-> node,
     path |-> components,
     basename |-> IF step <= Len(components) THEN components[step] ELSE NoName]

WalkEnd(st, kind, err) ==
    WalkState(st.w, kind, err, st.d, st.parent, st.components, st.step, st.depth, 0)

\* A walk gives up one expansion late.
ExhaustedLate(depth) == depth > LoopBudget

\* The test at the top of every pass: the walk has used up its expansions.
Exhausted(depth) == depth >= LoopBudget

\* One pass through the body of the while loop.
WalkStep(st, f, noFollow) ==
    IF st.step > Len(st.components) THEN WalkEnd(st, "none", "ENOENT")
    ELSE IF Exhausted(st.depth) THEN WalkEnd(st, "err", "ELOOP")
    ELSE LET w == st.w
             components == st.components
             step == st.step
             lastStep == step = Len(components)
             i == Lookup(LinksOf(w, f, st.d), components[step])
         IN  IF i = 0 THEN WalkEnd(st, "none", "ENOENT")
             ELSE IF isSymlinkInode(Node(w, f, i)) /\ ~(noFollow /\ lastStep)
             THEN LET dirname == SubSeq(components, 1, step - 1)
                      symlink == Resolve(dirname, Node(w, f, i).symlink)
                  IN  IF ~IsAbsolute(symlink) THEN WalkEnd(st, "err", "Error")
                      ELSE WalkState(GetRootLinks(w, f), "walk", "OK", 0, 0,
                                     symlink \o SubSeq(components, step + 1, Len(components)),
                                     1, st.depth + 1, 0)
             ELSE IF lastStep
             THEN LET parent1 == IF st.parent = 0 /\ isDirectoryInode(Node(w, f, i))
                                 THEN i ELSE st.parent
                  IN  IF parent1 = 0 THEN WalkEnd(st, "err", "ENOENT")
                      ELSE WalkState(w, "ok", "OK", st.d, parent1, components, step,
                                     st.depth, i)
             ELSE IF isDirectoryInode(Node(w, f, i))
             THEN WalkState(GetLinks(w, f, i), "walk", "OK", i, i, components, step + 1,
                            st.depth, 0)
             ELSE WalkEnd(st, "err", "ENOTDIR")

RECURSIVE WalkLoop(_, _, _)
WalkLoop(st, f, noFollow) ==
    IF st.kind # "walk" THEN st ELSE WalkLoop(WalkStep(st, f, noFollow), f, noFollow)

Walk(w, f, path, noFollow) ==
    WalkLoop(WalkState(GetRootLinks(w, f), "walk", "OK", 0, 0, path, 1, 0, 0), f, noFollow)

Find(w, f, path) == Walk(w, f, path, FALSE)

\* _lfind that follows a symlink in the final component too.
LfindFollows(w, f, path) == Walk(w, f, path, FALSE)

Lfind(w, f, path) == Walk(w, f, path, TRUE)

FsResolve(w, f, path) == Resolve(w.fs[f].cwd, path)

(***************************************************************************)
(* Directory operations.  Each returns the world after the call, with the  *)
(* outcome in `ret`.  A call that throws keeps whatever it changed before  *)
(* the throw (lazily materialised link maps in particular).  Modes are     *)
(* always finite numbers here, so the isFinite tests never fail.           *)
(***************************************************************************)
IsRoot(path) == Dirname(path) = path

\* The common tail of mkdirSync and mountSync once parent and name are known.
MakeDirectory(w, f, op, parent, name, mode, source) ==
    LET Linked(w4) ==
            IF parent # 0 THEN [w4 EXCEPT !.inodes[f][parent].mtimeMs = Time(w4)]
            ELSE IF w4.fs[f].cwd = <<>> THEN [w4 EXCEPT !.fs[f].cwd = <<name>>]
            ELSE w4
        Sourced(w3) == Linked(AddLink(w3, f, parent, parent, name, w3.inoCount))
        Made(w2) ==
            Sourced(IF source # NoSource
                    THEN [w2 EXCEPT !.inodes[f][w2.inoCount].source = source,
                                    !.inodes[f][w2.inoCount].resolver = TRUE]
                    ELSE w2)
        Listed(w1) ==
            IF LinksOf(w1, f, parent)[name] # 0 THEN Ret(w1, op, f, "EEXIST")
            ELSE IF IsReadonly(w1, f) THEN Ret(w1, op, f, "EROFS")
            ELSE Ret(Made(IF parent # 0
                          THEN Mknod(w1, f, Node(w1, f, parent).dev, S_IFDIR, mode, 18)
                          ELSE Mknod([w1 EXCEPT !.devCount = @ + 1], f,
                                     w1.devCount + 1, S_IFDIR, mode, 0)),
                     op, f, "OK")
    IN  Listed(GetLinks(w, f, parent))

MakeDirectoryAt(w, f, op, target, mode, source) ==
    LET Found(r) ==
            IF r.kind # "ok" THEN Ret(r.w, op, f, r.err)
            ELSE IF ~isDirectoryInode(Node(r.w, f, r.node)) THEN Ret(r.w, op, f, "ENOTDIR")
            ELSE MakeDirectory(r.w, f, op, r.node, Basename(target), mode, source)
    IN  IF IsRoot(target) THEN MakeDirectory(w, f, op, 0, target[1], mode, source)
        ELSE Found(Find(w, f, Dirname(target)))

\* mkdirSync that marks every inode as accessed when the directory exists.
MkdirSyncTouches(w, f, path0, mode) ==
    LET Touched(r) ==
            IF r.ret.err # "EEXIST" THEN r
            ELSE [r EXCEPT !.inodes[f] =
                     [i \in DOMAIN @ |-> [@[i] EXCEPT !.atimeMs = Time(r)]]]
    IN  Touched(MakeDirectoryAt(w, f, "mkdir", FsResolve(w, f, path0), mode % 1024, NoSource))

MkdirSync(w, f, path0, mode) ==
    MakeDirectoryAt(w, f, "mkdir", FsResolve(w, f, path0), mode % 1024, NoSource)

\* mkdirpSync: mkdir, after mkdirp of the parent when that is missing; an
\* existing entry is no error.
RECURSIVE MkdirpSync(_, _, _, _)
MkdirpSync(w, f, path0, mode) ==
    LET Named(r) == [r EXCEPT !.ret.op = "mkdirp"]
        Retried(r2) ==
            IF r2.ret.err # "OK" THEN r2
            ELSE Named(MkdirSync(r2, f, FsResolve(w, f, path0), mode))
        Tried(r) ==
            IF r.ret.err = "ENOENT"
            THEN Retried(MkdirpSync(r, f, Dirname(FsResolve(w, f, path0)), mode))
            ELSE IF r.ret.err = "EEXIST" THEN Ret(r, "mkdirp", f, "OK")
            ELSE Named(r)
    IN  Tried(MkdirSync(w, f, FsResolve(w, f, path0), mode))

MountSync(w, f, source, target0, mode) ==
    MakeDirectoryAt(w, f, "mount", FsResolve(w, f, target0), mode % 1024, source)

\* The tail shared by rmdir, link, unlink and rename: _invalidatePaths(node).
Invalidated(w, f, op, i) ==
    LET Walked(r) == Ret(r.w, op, f, IF r.overflow THEN "RangeError" ELSE "OK")
    IN  Walked(InvalidatePaths(w, f, i, {}))

RmdirSync(w, f, path0) ==
    LET path == FsResolve(w, f, path0)
        Stamped(w3, r) ==
            [w3 EXCEPT !.inodes[f][r.parent].mtimeMs = Time(w3),
                       !.inodes[f][r.node].ctimeMs = Time(w3)]
        Removed(w2, r) ==
            Invalidated(Stamped(RemoveLink(w2, f, r.parent, r.parent, Basename(path), r.node), r),
                        f, "rmdir", r.node)
        Listed(w1, r) ==
            IF LinksSize(Node(w1, f, r.node).links) # 0 THEN Ret(w1, "rmdir", f, "ENOTEMPTY")
            ELSE IF IsReadonly(w1, f) THEN Ret(w1, "rmdir", f, "EROFS")
            ELSE Removed(GetLinks(w1, f, r.parent), r)
        Found(r) ==
            IF r.kind # "ok" THEN Ret(r.w, "rmdir", f, r.err)
            ELSE IF ~isDirectoryInode(Node(r.w, f, r.node)) THEN Ret(r.w, "rmdir", f, "ENOTDIR")
            ELSE Listed(GetLinks(r.w, f, r.node), r)
    IN  Found(Find(w, f, path))

LinkSync(w, f, oldpath0, newpath0) ==
    LET oldpath == FsResolve(w, f, oldpath0)
        newpath == FsResolve(w, f, newpath0)
        newBasename == Basename(newpath)
        Stamped(w2, r, q) ==
            [w2 EXCEPT !.inodes[f][q.node].mtimeMs = Time(w2),
                       !.inodes[f][r.node].ctimeMs = Time(w2)]
        Listed(w1, r, q) ==
            IF Node(w1, f, q.node).links[newBasename] # 0 THEN Ret(w1, "link", f, "EEXIST")
            ELSE IF IsReadonly(w1, f) THEN Ret(w1, "link", f, "EROFS")
            ELSE Invalidated(Stamped(AddLink(w1, f, q.node, q.node, newBasename, r.node), r, q),
                             f, "link", r.node)
        Placed(q, r) ==
            IF q.kind # "ok" THEN Ret(q.w, "link", f, q.err)
            ELSE IF ~isDirectoryInode(Node(q.w, f, q.node)) THEN Ret(q.w, "link", f, "ENOTDIR")
            ELSE Listed(GetLinks(q.w, f, q.node), r, q)
        Found(r) ==
            IF r.kind # "ok" THEN Ret(r.w, "link", f, r.err)
            ELSE IF isDirectoryInode(Node(r.w, f, r.node)) THEN Ret(r.w, "link", f, "EPERM")
            ELSE Placed(Find(r.w, f, Dirname(newpath)), r)
    IN  Found(Find(w, f, oldpath))

\* unlinkSync without the test for a directory.
UnlinkSyncAnything(w, f, path0) ==
    LET Stamped(w2, r) ==
            [w2 EXCEPT !.inodes[f][r.parent].mtimeMs = Time(w2),
                       !.inodes[f][r.node].ctimeMs = Time(w2)]
        Listed(w1, r) ==
            Invalidated(Stamped(RemoveLink(w1, f, r.parent, r.parent, r.basename, r.node), r),
                        f, "unlink", r.node)
        Found(r) ==
            IF r.kind # "ok" THEN Ret(r.w, "unlink", f, r.err)
            ELSE IF IsReadonly(r.w, f) THEN Ret(r.w, "unlink", f, "EROFS")
            ELSE Listed(GetLinks(r.w, f, r.parent), r)
    IN  Found(Lfind(w, f, FsResolve(w, f, path0)))

UnlinkSync(w, f, path0) ==
    LET Stamped(w2, r) ==
            [w2 EXCEPT !.inodes[f][r.parent].mtimeMs = Time(w2),
                       !.inodes[f][r.node].ctimeMs = Time(w2)]
        Listed(w1, r) ==
            Invalidated(Stamped(RemoveLink(w1, f, r.parent, r.parent, r.basename, r.node), r),
                        f, "unlink", r.node)
        Found(r) ==
            IF r.kind # "ok" THEN Ret(r.w, "unlink", f, r.err)
            ELSE IF isDirectoryInode(Node(r.w, f, r.node)) THEN Ret(r.w, "unlink", f, "EISDIR")
            ELSE IF IsReadonly(r.w, f) THEN Ret(r.w, "unlink", f, "EROFS")
            ELSE Listed(GetLinks(r.w, f, r.parent), r)
    IN  Found(Lfind(w, f, FsResolve(w, f, path0)))

\* The part of renameSync after the read-only test.
RenameCommit(w, f, oldParent, oldBasename, newParent, newBasename, node, existingNode) ==
    LET time == Time(w)
        Replaced(w2) ==
            Invalidated([w2 EXCEPT !.inodes[f][oldParent].mtimeMs = time,
                                   !.inodes[f][newParent].mtimeMs = time],
                        f, "rename", node)
        Moved(w0) ==
            Replaced(ReplaceLink(GetLinks(w0, f, oldParent), f, oldParent, oldBasename,
                                 newParent, newBasename, node))
        Dropped(x) ==
            IF x.overflow THEN Ret(x.w, "rename", f, "RangeError")
            ELSE Moved([x.w EXCEPT !.inodes[f][existingNode].ctimeMs = time])
    IN  IF existingNode # 0
        THEN Dropped(InvalidatePaths(
                 RemoveLink(w, f, newParent, newParent, newBasename, existingNode),
                 f, existingNode, {}))
        ELSE Moved(w)

RenameSync(w, f, oldpath0, newpath0) ==
    LET oldpath == FsResolve(w, f, oldpath0)
        newpath == FsResolve(w, f, newpath0)
        newBasename == Basename(newpath)
        Checked(w2, r, q) ==
            LET existingNode == Node(w2, f, q.node).links[newBasename]
                nodeIsDir == isDirectoryInode(Node(w2, f, r.node))
                existingIsDir == existingNode # 0
                                   /\ isDirectoryInode(Node(w2, f, existingNode))
            IN  IF existingNode # 0 /\ nodeIsDir /\ ~existingIsDir
                THEN Ret(w2, "rename", f, "ENOTDIR")
                ELSE IF nodeIsDir /\ existingIsDir
                        /\ LinksSize(Node(w2, f, existingNode).links) > 0
                THEN Ret(w2, "rename", f, "ENOTEMPTY")
                ELSE IF existingNode # 0 /\ ~nodeIsDir /\ existingIsDir
                THEN Ret(w2, "rename", f, "EISDIR")
                ELSE IF IsReadonly(w2, f) THEN Ret(w2, "rename", f, "EROFS")
                ELSE RenameCommit(w2, f, r.parent, r.basename, q.node,
                                  newBasename, r.node, existingNode)
        Listed(w1, r, q) ==
            LET existingNode == Node(w1, f, q.node).links[newBasename]
            IN  Checked(IF existingNode # 0 /\ isDirectoryInode(Node(w1, f, r.node))
                           /\ isDirectoryInode(Node(w1, f, existingNode))
                        THEN GetLinks(w1, f, existingNode) ELSE w1, r, q)
        Placed(q, r) ==
            IF q.kind # "ok" THEN Ret(q.w, "rename", f, q.err)
            ELSE IF ~isDirectoryInode(Node(q.w, f, q.node)) THEN Ret(q.w, "rename", f, "ENOTDIR")
            ELSE Listed(GetLinks(q.w, f, q.node), r, q)
        Found(r) ==
            IF r.kind # "ok" THEN Ret(r.w, "rename", f, r.err)
            ELSE Placed(Find(r.w, f, Dirname(newpath)), r)
    IN  Found(Lfind(w, f, oldpath))

SymlinkSync(w, f, target, linkpath0) ==
    LET linkpath == FsResolve(w, f, linkpath0)
        basename == Basename(linkpath)
        Linked(w4, r) ==
            Ret([w4 EXCEPT !.inodes[f][r.node].mtimeMs = Time(w4)], "symlink", f, "OK")
        Made(w2, r) ==
            Linked(AddLink([w2 EXCEPT !.inodes[f][w2.inoCount].symlink = target],
                           f, r.node, r.node, basename, w2.inoCount), r)
        Listed(w1, r) ==
            IF Node(w1, f, r.node).links[basename] # 0 THEN Ret(w1, "symlink", f, "EEXIST")
            ELSE IF IsReadonly(w1, f) THEN Ret(w1, "symlink", f, "EROFS")
            ELSE Made(Mknod(w1, f, Node(w1, f, r.node).dev, S_IFLNK, 438, 18), r)
        Found(r) ==
            IF r.kind # "ok" THEN Ret(r.w, "symlink", f, r.err)
            ELSE IF ~isDirectoryInode(Node(r.w, f, r.node)) THEN Ret(r.w, "symlink", f, "ENOTDIR")
            ELSE Listed(GetLinks(r.w, f, r.node), r)
    IN  Found(Find(w, f, Dirname(linkpath)))

ChmodSync(w, f, path0, mode) ==
    LET Found(r) ==
            IF r.kind # "ok" THEN Ret(r.w, "chmod", f, r.err)
            ELSE IF IsReadonly(r.w, f) THEN Ret(r.w, "chmod", f, "EROFS")
            ELSE Ret([r.w EXCEPT !.inodes[f][r.node].mode = TypeBits(@) + PermBits(mode),
                                 !.inodes[f][r.node].ctimeMs = Time(r.w)],
                     "chmod", f, "OK")
    IN  Found(Find(w, f, FsResolve(w, f, path0)))

(***************************************************************************)
(* Buffers.  Buffer.allocUnsafe gives a new object: the smallest id no     *)
(* live reference uses.                                                    *)
(***************************************************************************)
NextBuf(w) ==
    CHOOSE k \in 1..(Cardinality(DOMAIN w.bufs) + 1) :
        k \notin DOMAIN w.bufs /\ \A j \in 1..(k - 1) : j \in DOMAIN w.bufs

AllocBuf(w, bytes) == [w EXCEPT !.bufs = (NextBuf(w) :> bytes) @@ @]

ByteLength(w, b) == Len(w.bufs[b])

Zeros(n) == [k \in 1..n |-> 0]

\* resizeBuffer that leaves the added bytes as Buffer.allocUnsafe gave them.
ResizeBufferUnfilled(w, b, size) ==
    IF ByteLength(w, b) = size THEN [w |-> w, b |-> b]
    ELSE LET old == w.bufs[b]
             kept == IF Len(old) <= size THEN old ELSE SubSeq(old, 1, size)
         IN  [w |-> AllocBuf(w, kept \o [k \in 1..(size - Len(kept)) |-> 1]),
              b |-> NextBuf(w)]

\* resizeBuffer: the same object when the size fits, else a zero-extended copy.
ResizeBuffer(w, b, size) ==
    IF ByteLength(w, b) = size THEN [w |-> w, b |-> b]
    ELSE LET old == w.bufs[b]
             kept == IF Len(old) <= size THEN old ELSE SubSeq(old, 1, size)
         IN  [w |-> AllocBuf(w, kept \o Zeros(size - Len(kept))), b |-> NextBuf(w)]

\* source.copy(target, targetStart, sourceStart, sourceEnd): the bytes copied.
CopiedBytes(source, sourceStart, sourceEnd, room) ==
    LET end == IF sourceEnd < Len(source) THEN sourceEnd ELSE Len(source)
        n == IF end - sourceStart < room THEN end - sourceStart ELSE room
    IN  IF n <= 0 THEN <<>> ELSE SubSeq(source, sourceStart + 1, sourceStart + n)

\* `target` with `bytes` stored from index `at` (0-based) on.
Overwrite(target, at, bytes) ==
    [k \in 1..Len(target) |->
        IF k > at /\ k <= at + Len(bytes) THEN bytes[k - at] ELSE target[k]]

\* _getSize that does not ask the shadowed file system.
GetSizeOwn(w, f, i) ==
    LET node == Node(w, f, i)
    IN  IF node.buffer # 0 THEN [w |-> w, n |-> ByteLength(w, node.buffer)]
        ELSE IF node.size # -1 THEN [w |-> w, n |-> node.size]
        ELSE [w |-> w, n |-> 0]

RECURSIVE GetSize(_, _, _)
GetSize(w, f, i) ==
    LET node == Node(w, f, i)
    IN  IF node.buffer # 0 THEN [w |-> w, n |-> ByteLength(w, node.buffer)]
        ELSE IF node.size # -1 THEN [w |-> w, n |-> node.size]
        ELSE IF node.source # NoSource /\ node.resolver
        THEN [w |-> [w EXCEPT !.inodes[f][i].size = ExtStat(node.source).size,
                              !.calls.statSync = @ + 1],
              n |-> ExtStat(node.source).size]
        ELSE IF w.fs[f].shadowRoot # 0 /\ node.shadowRoot
        THEN LET r == GetSize(w, w.fs[f].shadowRoot, i)
             IN  [w |-> [r.w EXCEPT !.inodes[f][i].size = r.n], n |-> r.n]
        ELSE [w |-> w, n |-> 0]

\* _getBuffer that never asks the shadowed inode or a resolver.
GetBufferOwn(w, f, i) ==
    IF Node(w, f, i).buffer # 0 THEN [w |-> w, b |-> Node(w, f, i).buffer]
    ELSE [w |-> [AllocBuf(w, <<>>) EXCEPT !.inodes[f][i].buffer = NextBuf(w)],
          b |-> NextBuf(w)]

RECURSIVE GetBuffer(_, _, _)
GetBuffer(w, f, i) ==
    LET node == Node(w, f, i)
    IN  IF node.buffer # 0 THEN [w |-> w, b |-> node.buffer]
        ELSE IF node.source # NoSource /\ node.resolver
        THEN LET w1 == AllocBuf(w, ExtReadFile(node.source))
             IN  [w |-> [w1 EXCEPT !.calls.readFileSync = @ + 1,
                                   !.inodes[f][i].source = NoSource,
                                   !.inodes[f][i].resolver = FALSE,
                                   !.inodes[f][i].size = -1,
                                   !.inodes[f][i].buffer = NextBuf(w)],
                  b |-> NextBuf(w)]
        ELSE IF w.fs[f].shadowRoot # 0 /\ node.shadowRoot
        THEN LET r == GetBuffer(w, w.fs[f].shadowRoot, i)
             IN  [w |-> [r.w EXCEPT !.inodes[f][i].buffer = r.b], b |-> r.b]
        ELSE [w |-> [AllocBuf(w, <<>>) EXCEPT !.inodes[f][i].buffer = NextBuf(w)],
              b |-> NextBuf(w)]

(***************************************************************************)
(* The open-file table.  An entry refers to its inode by identity.         *)
(***************************************************************************)
ParseFlags(flags) ==
    CASE flags = "r" -> O_RDONLY
      [] flags = "r+" -> O_RDWR
      [] flags = "rs+" -> O_RDWR
      [] flags = "w" -> O_WRONLY + O_TRUNC + O_CREAT
      [] flags = "wx" -> O_WRONLY + O_TRUNC + O_CREAT + O_EXCL
      [] flags = "w+" -> O_RDWR + O_TRUNC + O_CREAT
      [] flags = "wx+" -> O_RDWR + O_TRUNC + O_CREAT + O_EXCL
      [] flags = "a" -> O_WRONLY + O_APPEND + O_CREAT
      [] flags = "ax" -> O_WRONLY + O_APPEND + O_CREAT + O_EXCL
      [] flags = "a+" -> O_RDWR + O_APPEND + O_CREAT
      [] flags = "ax+" -> O_RDWR + O_APPEND + O_CREAT + O_EXCL

\* _fsync that installs the buffer in the shadowed inode as well.
FsyncThroughShadow(w, f, entry, metadata) ==
    LET node == Node(w, f, entry.node)
        p == w.fs[f].shadowRoot
    IN  IF isFileInode(node) /\ entry.buffer # 0 /\ entry.buffer # node.buffer
        THEN LET w1 == [w EXCEPT !.inodes[f][entry.node].buffer = entry.buffer,
                                 !.inodes[f][entry.node].size = ByteLength(w, entry.buffer)]
             IN  IF p # 0 /\ node.shadowRoot
                 THEN [w1 EXCEPT !.inodes[p][entry.node].buffer = entry.buffer]
                 ELSE w1
        ELSE w

\* _fsync: install the descriptor's buffer as the inode's.
Fsync(w, f, entry, metadata) ==
    LET node == Node(w, f, entry.node)
    IN  IF isFileInode(node) /\ entry.buffer # 0 /\ entry.buffer # node.buffer
        THEN [w EXCEPT !.inodes[f][entry.node].buffer = entry.buffer,
                       !.inodes[f][entry.node].mtimeMs = Time(w),
                       !.inodes[f][entry.node].ctimeMs = Time(w),
                       !.inodes[f][entry.node].size =
                           IF metadata THEN ByteLength(w, entry.buffer) ELSE @]
        ELSE w

\* _file: the error the lookup of a descriptor raises, or "OK".
File(w, f, fd, kind, mode) ==
    IF fd \notin DOMAIN w.fs[f].openFiles THEN "EBADF"
    ELSE LET entry == w.fs[f].openFiles[fd]
             node == Node(w, f, entry.node)
         IN  IF kind = "file" /\ isDirectoryInode(node) THEN "EISDIR"
             ELSE IF kind = "file" /\ ~isFileInode(node) THEN "EBADF"
             ELSE IF kind = "directory" /\ ~isDirectoryInode(node) THEN "EBADF"
             ELSE IF Has(mode, W_OK) /\ ~isWritable(entry) THEN "EBADF"
             ELSE IF Has(mode, R_OK) /\ ~isReadable(entry) THEN "EBADF"
             ELSE "OK"

SetFile(w, f, fd, entry) == [w EXCEPT !.fs[f].openFiles = (fd :> entry) @@ @]

\* openSync that forgets to empty the descriptor's buffer under O_TRUNC.
OpenEntryKeeps(w, f, path, basename, parent, node, flags) ==
    LET fd == w.fdCount + 1
        file == [fd |-> fd, path |-> path, basename |-> basename, parent |-> parent,
                 node |-> node, flags |-> flags, written |-> FALSE,
                 offset |-> 0, buffer |-> 0]
    IN  RetVal(SetFile([w EXCEPT !.fdCount = fd], f, fd, file), "open", f, fd, <<>>)

\* The part of openSync from the descriptor's creation on.
\* openSync that hands out the lowest descriptor number not in use, as POSIX
\* open does.
OpenEntryLowest(w, f, path, basename, parent, node, flags) ==
    LET free == {k \in 1..(w.fdCount + 1) : k \notin DOMAIN w.fs[f].openFiles}
        fd == CHOOSE k \in free : \A m \in free : k <= m
        file == [fd |-> fd, path |-> path, basename |-> basename, parent |-> parent,
                 node |-> node, flags |-> flags, written |-> FALSE,
                 offset |-> 0, buffer |-> 0]
    IN  RetVal(SetFile([w EXCEPT !.fdCount = IF fd > @ THEN fd ELSE @], f, fd, file),
               "open", f, fd, <<>>)

\* openSync that starts every descriptor at offset 0.
OpenEntryAtStart(w, f, path, basename, parent, node, flags) ==
    LET fd == w.fdCount + 1
        file == [fd |-> fd, path |-> path, basename |-> basename, parent |-> parent,
                 node |-> node, flags |-> flags, written |-> FALSE,
                 offset |-> 0, buffer |-> 0]
        Truncated(w2, file2) ==
            RetVal(IF Has(flags, O_SYNC) THEN Fsync(w2, f, file2, TRUE) ELSE w2,
                   "open", f, fd, <<>>)
        Entered(w1) ==
            IF Has(flags, O_TRUNC)
            THEN Truncated(SetFile(AllocBuf(w1, <<>>), f, fd,
                                   [file EXCEPT !.buffer = NextBuf(w1)]),
                           [file EXCEPT !.buffer = NextBuf(w1)])
            ELSE RetVal(w1, "open", f, fd, <<>>)
    IN  Entered(SetFile([w EXCEPT !.fdCount = fd], f, fd, file))

OpenEntry(w, f, path, basename, parent, node, flags) ==
    LET fd == w.fdCount + 1
        Entry(offset, buffer) ==
            [fd |-> fd, path |-> path, basename |-> basename, parent |-> parent,
             node |-> node, flags |-> flags, written |-> FALSE,
             offset |-> offset, buffer |-> buffer]
        Truncated(w2, file2) ==
            RetVal(IF Has(flags, O_SYNC) THEN Fsync(w2, f, file2, TRUE) ELSE w2,
                   "open", f, fd, <<>>)
        Entered(w1, file) ==
            IF Has(flags, O_TRUNC)
            THEN Truncated(SetFile(AllocBuf(w1, <<>>), f, fd,
                                   [file EXCEPT !.buffer = NextBuf(w1)]),
                           [file EXCEPT !.buffer = NextBuf(w1)])
            ELSE RetVal(w1, "open", f, fd, <<>>)
        Sized(sz) ==
            Entered(SetFile([sz.w EXCEPT !.fdCount = fd], f, fd, Entry(sz.n, 0)),
                    Entry(sz.n, 0))
    IN  Sized(IF isFileInode(Node(w, f, node))
                 /\ Has(flags, O_APPEND) /\ ~Has(flags, O_TRUNC)
              THEN GetSize(w, f, node) ELSE [w |-> w, n |-> 0])

\* The branch of openSync that creates the file.
OpenCreate(w, f, path, basename, flags, mode) ==
    LET Linked(w4, r, i) ==
            OpenEntry([w4 EXCEPT !.inodes[f][r.node].mtimeMs = Time(w4)],
                      f, path, basename, r.node, i, With(flags, O_TRUNC))
        Made(w1, r) ==
            Linked(AddLink(GetLinks([AllocBuf(w1, <<>>)
                                        EXCEPT !.inodes[f][w1.inoCount].buffer = NextBuf(w1)],
                                    f, r.node),
                           f, r.node, r.node, basename, w1.inoCount),
                   r, w1.inoCount)
        Found(r) ==
            IF r.kind # "ok" THEN Ret(r.w, "open", f, r.err)
            ELSE IF ~isDirectoryInode(Node(r.w, f, r.node)) THEN Ret(r.w, "open", f, "ENOTDIR")
            ELSE Made(Mknod(r.w, f, Node(r.w, f, r.node).dev, S_IFREG, mode, 18), r)
    IN  Found(Walk(w, f, Dirname(path), FALSE))

\* openSync without the tests on an entry that was found.
OpenSyncUntested(w, f, path0, flags, mode) ==
    LET path == FsResolve(w, f, path0)
        Found(entry) ==
            IF entry.kind = "err" THEN Ret(entry.w, "open", f, entry.err)
            ELSE IF entry.kind = "none"
            THEN IF ~Has(flags, O_CREAT) THEN Ret(entry.w, "open", f, "ENOENT")
                 ELSE OpenCreate(entry.w, f, path, Basename(path), flags, mode)
            ELSE OpenEntry(entry.w, f, path, Basename(path), entry.parent, entry.node, flags)
    IN  Found(Walk(w, f, path, Has(flags, O_NOFOLLOW)))

OpenSync(w, f, path0, flags, mode) ==
    LET path == FsResolve(w, f, path0)
        basename == Basename(path)
        \* flags & O_ACCMODE && flags & O_CREAT | O_TRUNC
        write == IF AccMode(flags) # 0
                 THEN (IF Has(flags, O_CREAT) THEN O_CREAT ELSE 0) + O_TRUNC
                 ELSE 0
        Found(entry) ==
            IF entry.kind = "err" THEN Ret(entry.w, "open", f, entry.err)
            ELSE IF entry.kind = "none"
            THEN IF ~Has(flags, O_CREAT) THEN Ret(entry.w, "open", f, "ENOENT")
                 ELSE IF Has(flags, O_DIRECTORY) THEN Ret(entry.w, "open", f, "ENOTDIR")
                 ELSE OpenCreate(entry.w, f, path, basename, flags, mode)
            ELSE IF Has(flags, O_EXCL) THEN Ret(entry.w, "open", f, "EEXIST")
            ELSE IF Has(flags, O_DIRECTORY) /\ isFileInode(Node(entry.w, f, entry.node))
            THEN Ret(entry.w, "open", f, "ENOTDIR")
            ELSE IF write # 0 /\ isDirectoryInode(Node(entry.w, f, entry.node))
            THEN Ret(entry.w, "open", f, "EISDIR")
            ELSE OpenEntry(entry.w, f, path, basename, entry.parent, entry.node, flags)
    IN  IF write # 0 /\ IsReadonly(w, f) THEN Ret(w, "open", f, "EROFS")
        ELSE Found(Walk(w, f, path, Has(flags, O_NOFOLLOW)))

\* closeSync that enters the file under the name it was opened by again.
CloseSyncRelinks(w, f, fd) ==
    IF File(w, f, fd, "any", F_OK) # "OK" THEN Ret(w, "close", f, File(w, f, fd, "any", F_OK))
    ELSE LET entry == w.fs[f].openFiles[fd]
             w1 == [w EXCEPT !.fs[f].openFiles = [k \in DOMAIN @ \ {fd} |-> @[k]]]
             w2 == Fsync(w1, f, entry, TRUE)
         IN  IF entry.parent \in DOMAIN w2.inodes[f]
                   /\ Node(w2, f, entry.parent).links[entry.basename] = 0
             THEN Ret(AddLink(w2, f, entry.parent, entry.parent, entry.basename, entry.node),
                      "close", f, "OK")
             ELSE Ret(w2, "close", f, "OK")

CloseSync(w, f, fd) ==
    IF File(w, f, fd, "any", F_OK) # "OK" THEN Ret(w, "close", f, File(w, f, fd, "any", F_OK))
    ELSE LET entry == w.fs[f].openFiles[fd]
             w1 == [w EXCEPT !.fs[f].openFiles = [k \in DOMAIN @ \ {fd} |-> @[k]]]
         IN  Ret(Fsync(w1, f, entry, TRUE), "close", f, "OK")

\* readSync into a destination buffer of `size` bytes; ret.data is what was copied.
ReadSync(w, f, fd, size, offset, length, position) ==
    LET entry == w.fs[f].openFiles[fd]
        at == IF position # -1 THEN position ELSE entry.offset
        Copied(w1, bytes) ==
            RetVal([w1 EXCEPT !.fs[f].openFiles[fd].offset = at + Len(bytes)],
                   "read", f, Len(bytes), bytes)
        Got(g) ==
            IF at > ByteLength(g.w, g.b)
            THEN Ret(SetFile(g.w, f, fd, [entry EXCEPT !.offset = at, !.buffer = g.b]),
                     "read", f, "RangeError")
            ELSE Copied(SetFile(g.w, f, fd, [entry EXCEPT !.offset = at, !.buffer = g.b]),
                        CopiedBytes(g.w.bufs[g.b], at, at + length, size - offset))
    IN  IF offset < 0 \/ length < 0 \/ position < -1 \/ offset > size - length
        THEN Ret(w, "read", f, "EINVAL")
        ELSE IF length = 0 THEN RetVal(w, "read", f, 0, <<>>)
        ELSE IF File(w, f, fd, "file", R_OK) # "OK"
        THEN Ret(w, "read", f, File(w, f, fd, "file", R_OK))
        ELSE Got(IF entry.buffer = 0 THEN GetBuffer(w, f, entry.node)
                 ELSE [w |-> w, b |-> entry.buffer])

\* writeSync of buffer[offset .. offset+length) at `position` (-1: the descriptor's).
WriteSync(w, f, fd, buffer, offset, length, position) ==
    LET entry == w.fs[f].openFiles[fd]
        at == IF position # -1 THEN position ELSE entry.offset
        bytes == SubSeq(buffer, offset + 1, offset + length)
        Stored(w2, file) ==
            RetVal(IF Has(entry.flags, O_SYNC) THEN Fsync(w2, f, file, TRUE) ELSE w2,
                   "write", f, length, <<>>)
        Sized(z) ==
            Stored(SetFile([z.w EXCEPT !.bufs[z.b] = Overwrite(@, at, bytes)], f, fd,
                           [entry EXCEPT !.offset = at + length, !.buffer = z.b]),
                   [entry EXCEPT !.offset = at + length, !.buffer = z.b])
        Owned(c) ==
            Sized(IF at >= ByteLength(c.w, c.b) - length
                  THEN ResizeBuffer(c.w, c.b, at + length)
                  ELSE c)
        \* the first write takes a copy of the storage buffer
        Got(g) ==
            Owned(IF entry.buffer = 0
                  THEN [w |-> AllocBuf(g.w, g.w.bufs[g.b]), b |-> NextBuf(g.w)]
                  ELSE g)
    IN  IF offset < 0 \/ length < 0 \/ position < -1 \/ offset > Len(buffer) - length
        THEN Ret(w, "write", f, "EINVAL")
        ELSE IF length = 0 THEN RetVal(w, "write", f, 0, <<>>)
        ELSE IF File(w, f, fd, "file", W_OK) # "OK"
        THEN Ret(w, "write", f, File(w, f, fd, "file", W_OK))
        ELSE Got(IF entry.buffer = 0 THEN GetBuffer(w, f, entry.node)
                 ELSE [w |-> w, b |-> entry.buffer])

(***************************************************************************)
(* stat, readdir, readlink, readFile and writeFile.                        *)
(***************************************************************************)
\* The length of the string a symlink target is written as ("/a/b": 4).
TargetLength(t) ==
    IF Len(t) = 0 THEN 0
    ELSE IF IsAbsolute(t) THEN (IF Len(t) = 1 THEN 1 ELSE 2 * (Len(t) - 1))
    ELSE 2 * Len(t) - 1

\* _stat: the Stats of an inode (this caches the size of a shadow or mount file).
Stat(w, f, op, i) ==
    LET node == Node(w, f, i)
        sz == IF isFileInode(node) THEN GetSize(w, f, i)
              ELSE [w |-> w, n |-> IF isSymlinkInode(node)
                                   THEN TargetLength(node.symlink) ELSE 0]
    IN  [Ret(sz.w, op, f, "OK") EXCEPT !.ret.stat =
            [dev |-> node.dev, ino |-> node.ino, mode |-> node.mode,
             nlink |-> node.nlink, size |-> sz.n,
             atimeMs |-> node.atimeMs, mtimeMs |-> node.mtimeMs,
             ctimeMs |-> node.ctimeMs, birthtimeMs |-> node.birthtimeMs]]

StatSync(w, f, path0) ==
    LET Found(r) ==
            IF r.kind # "ok" THEN Ret(r.w, "stat", f, r.err)
            ELSE Stat(r.w, f, "stat", r.node)
    IN  Found(Find(w, f, FsResolve(w, f, path0)))

LstatSync(w, f, path0) ==
    LET Found(r) ==
            IF r.kind # "ok" THEN Ret(r.w, "lstat", f, r.err)
            ELSE Stat(r.w, f, "lstat", r.node)
    IN  Found(Lfind(w, f, FsResolve(w, f, path0)))

FstatSync(w, f, fd) ==
    IF File(w, f, fd, "any", F_OK) # "OK" THEN Ret(w, "fstat", f, File(w, f, fd, "any", F_OK))
    ELSE Stat(w, f, "fstat", w.fs[f].openFiles[fd].node)

ReaddirSync(w, f, path0) ==
    LET Listed(w1, i) ==
            [Ret(w1, "readdir", f, "OK") EXCEPT !.ret.names =
                {n \in AllNames : Node(w1, f, i).links[n] # 0}]
        Found(r) ==
            IF r.kind # "ok" THEN Ret(r.w, "readdir", f, r.err)
            ELSE IF ~isDirectoryInode(Node(r.w, f, r.node))
            THEN Ret(r.w, "readdir", f, "ENOTDIR")
            ELSE Listed(GetLinks(r.w, f, r.node), r.node)
    IN  Found(Find(w, f, FsResolve(w, f, path0)))

ReadlinkSync(w, f, path0) ==
    LET Found(r) ==
            IF r.kind # "ok" THEN Ret(r.w, "readlink", f, r.err)
            ELSE IF ~isSymlinkInode(Node(r.w, f, r.node))
            THEN Ret(r.w, "readlink", f, "EINVAL")
            ELSE RetVal(r.w, "readlink", f, 0, Node(r.w, f, r.node).symlink)
    IN  Found(Lfind(w, f, FsResolve(w, f, path0)))

\* The read loop of readFileSync; `acc` is the filled part of its buffer.
RECURSIVE ReadLoop(_, _, _, _, _, _, _)
ReadLoop(w, f, fd, size, offset, lastOffset, acc) ==
    LET Done(w1) ==
            IF w1.ret.err # "OK" THEN [w |-> w1, err |-> w1.ret.err, data |-> acc]
            ELSE ReadLoop(w1, f, fd, size, offset + w1.ret.n, offset, acc \o w1.ret.data)
    IN  IF lastOffset # offset /\ offset < size
        THEN Done(ReadSync(w, f, fd, size, offset, size - offset, offset))
        ELSE [w |-> w, err |-> "OK", data |-> acc]

ReadFileSync(w, f, path, flags) ==
    LET Closed(w3, r) ==
            IF r.err # "OK" THEN Ret(w3, "readFile", f, r.err)
            ELSE RetVal(w3, "readFile", f, Len(r.data), r.data)
        Filled(r, fd) == Closed(CloseSync(r.w, f, fd), r)
        Sized(w2, fd) == Filled(ReadLoop(w2, f, fd, w2.ret.stat.size, 0, -1, <<>>), fd)
        Opened(w1) ==
            IF w1.ret.err # "OK" THEN Ret(w1, "readFile", f, w1.ret.err)
            ELSE Sized(FstatSync(w1, f, w1.ret.n), w1.ret.n)
    IN  Opened(OpenSync(w, f, path, flags, 438))

\* The write loop of writeFileSync.
RECURSIVE WriteLoop(_, _, _, _, _, _)
WriteLoop(w, f, fd, buffer, offset, flags) ==
    LET Done(w1) ==
            IF w1.ret.err # "OK" THEN [w |-> w1, err |-> w1.ret.err]
            ELSE WriteLoop(w1, f, fd, buffer, offset + w1.ret.n, flags)
    IN  IF offset < Len(buffer)
        THEN Done(WriteSync(w, f, fd, buffer, offset, Len(buffer) - offset,
                            IF Has(flags, O_APPEND) THEN -1 ELSE offset))
        ELSE [w |-> w, err |-> "OK"]

WriteFileSync(w, f, path, data, flags) ==
    LET Written(r, fd) == Ret(CloseSync(r.w, f, fd), "writeFile", f, r.err)
        Opened(w1) ==
            IF w1.ret.err # "OK" THEN Ret(w1, "writeFile", f, w1.ret.err)
            ELSE Written(WriteLoop(w1, f, w1.ret.n, data, 0, flags), w1.ret.n)
    IN  Opened(OpenSync(w, f, path, flags, 438))

(***************************************************************************)
(* The current directory and its stack; freezing; shadowing.               *)
(***************************************************************************)
NoPath == <<>>

Chdir(w, f, op, path0) ==
    LET path == FsResolve(w, f, path0)
        Found(r) ==
            IF r.kind # "ok" THEN Ret(r.w, op, f, r.err)
            ELSE IF ~isDirectoryInode(Node(r.w, f, r.node)) THEN Ret(r.w, op, f, "ENOTDIR")
            ELSE Ret([r.w EXCEPT !.fs[f].cwd = path], op, f, "OK")
    IN  IF IsReadonly(w, f) THEN Ret(w, op, f, "EPERM")
        ELSE Found(Find(w, f, path))

Pushd(w, f, path0) ==
    IF IsReadonly(w, f) THEN Ret(w, "pushd", f, "EPERM")
    ELSE LET path == IF path0 # NoPath THEN FsResolve(w, f, path0) ELSE NoPath
             w1 == IF w.fs[f].cwd # <<>>
                   THEN [w EXCEPT !.fs[f].dirStack = Append(@, w.fs[f].cwd)]
                   ELSE w
         IN  IF path # NoPath /\ path # w.fs[f].cwd THEN Chdir(w1, f, "pushd", path)
             ELSE Ret(w1, "pushd", f, "OK")

Popd(w, f) ==
    IF IsReadonly(w, f) THEN Ret(w, "popd", f, "EPERM")
    ELSE IF Len(w.fs[f].dirStack) = 0 THEN Ret(w, "popd", f, "OK")
    ELSE LET stack == w.fs[f].dirStack
             path == stack[Len(stack)]
             w1 == [w EXCEPT !.fs[f].dirStack = SubSeq(stack, 1, Len(stack) - 1)]
         IN  Chdir(w1, f, "popd", path)

MakeReadonly(w, f) == Ret([w EXCEPT !.fs[f].frozen = TRUE], "makeReadonly", f, "OK")

\* shadow(): file system `c` becomes a child of the frozen file system `f`.
Shadow(w, f, c) ==
    IF ~IsReadonly(w, f) THEN Ret(w, "shadow", f, "Error")
    ELSE Ret([w EXCEPT !.fs[c] = [NewFs EXCEPT !.live = TRUE, !.shadowRoot = f,
                                               !.cwd = w.fs[f].cwd]],
             "shadow", f, "OK")

(***************************************************************************)
(* The state machine.  W is the current world; Commit makes the world an   *)
(* operation returned the next state.                                      *)
(***************************************************************************)
W ==
    [fs |-> fs, inodes |-> inodes, bufs |-> bufs, devCount |-> devCount,
     inoCount |-> inoCount, fdCount |-> fdCount, clock |-> clock, ret |-> ret,
     calls |-> NoCalls]

FsIds == {1, 2}

\* Inodes that some file system can still get at: through its root map, a
\* directory below it, an open descriptor, its map of shadows, or a shadow
\* made from the inode.
RECURSIVE LiveNodes(_, _, _)
LiveNodes(w, f, seen) ==
    LET more == UNION {{Node(w, f, i).links[n] : n \in AllNames} : i \in seen} \ {0}
    IN  IF more \subseteq seen THEN seen ELSE LiveNodes(w, f, seen \cup more)

NodeRoots(w, f) ==
    ({w.fs[f].links[n] : n \in AllNames} \ {0})
        \cup {w.fs[f].openFiles[d].node : d \in DOMAIN w.fs[f].openFiles}
        \cup {i \in DOMAIN w.inodes[f] : w.inodes[f][i].shadowRoot}
        \cup UNION {{i \in DOMAIN w.inodes[c] : w.inodes[c][i].shadowRoot} :
                        c \in {x \in FsIds : w.fs[x].shadowRoot = f}}

LiveBufs(w) ==
    UNION {{w.inodes[f][i].buffer : i \in DOMAIN w.inodes[f]}
               \cup {w.fs[f].openFiles[d].buffer : d \in DOMAIN w.fs[f].openFiles} :
           f \in FsIds} \ {0}

\* The first place, in a fixed order of all inodes and descriptors, that
\* holds buffer b.
FirstRef(w, b) ==
    LET slots == UNION {{<<f, 0, i>> : i \in {x \in DOMAIN w.inodes[f] :
                                                w.inodes[f][x].buffer = b}}
                            \cup {<<f, 1, d>> : d \in {x \in DOMAIN w.fs[f].openFiles :
                                                w.fs[f].openFiles[x].buffer = b}} :
                        f \in FsIds}
        Key(x) == (x[1] * 2 + x[2]) * (MaxIno + MaxFd + 1) + x[3]
    IN  CHOOSE m \in {Key(x) : x \in slots} : \A n \in {Key(x) : x \in slots} : m <= n

\* Objects nothing refers to any more are dropped from the heap.
SweepTo(w, live) ==
    IF \A f \in FsIds : DOMAIN w.inodes[f] = live[f] THEN w
    ELSE [w EXCEPT !.inodes = [f \in FsIds |-> [i \in live[f] |-> w.inodes[f][i]]]]

Sweep(w) == SweepTo(w, [f \in FsIds |-> LiveNodes(w, f, NodeRoots(w, f))])

\* A Buffer has no name in the program, only an identity: the live ones are
\* numbered in the order of their first reference (id: old number to new).
BufferIds(w, live) ==
    [b \in live \cup {0} |->
        IF b = 0 THEN 0
        ELSE 1 + Cardinality({c \in live : FirstRef(w, c) < FirstRef(w, b)})]

Renumber(w, live, id) ==
    IF DOMAIN w.bufs = live /\ \A b \in live : id[b] = b THEN w
    ELSE [w EXCEPT !.bufs = [k \in {id[b] : b \in live} |->
                                w.bufs[CHOOSE b \in live : id[b] = k]],
                   !.inodes = [f \in FsIds |-> [i \in DOMAIN w.inodes[f] |->
                                  [w.inodes[f][i] EXCEPT !.buffer = id[@]]]],
                   !.fs = [f \in FsIds |-> [w.fs[f] EXCEPT !.openFiles =
                              [d \in DOMAIN @ |-> [@[d] EXCEPT !.buffer = id[@]]]]]]

Compact(w, live) == Renumber(w, live, BufferIds(w, live))

CompactAll(w) == Compact(w, LiveBufs(w))

Gc(w) == CompactAll(Sweep(w))

\* The counters of inode and descriptor numbers only grow, bugs of the link
\* bookkeeping let nlink fall without end, and writes let a file grow without
\* end: runs stop at MaxIno inodes (a mount directory still to be materialised
\* counts for the one entry it will make), MaxFd descriptors of which MaxOpen
\* are open at a time in one file system, MaxDrift below
\* zero and MaxLen bytes.
Pinned(w) ==
    Cardinality({x \in FsIds \X (1..MaxIno) :
                    /\ x[2] \in DOMAIN w.inodes[x[1]]
                    /\ w.inodes[x[1]][x[2]].source # NoSource
                    /\ isDirectoryInode(w.inodes[x[1]][x[2]])})

Bounded(w) ==
    /\ w.inoCount + Pinned(w) <= MaxIno
    /\ w.fdCount <= MaxFd
    /\ \A f \in FsIds : Cardinality(DOMAIN w.fs[f].openFiles) <= MaxOpen
    /\ \A f \in FsIds : \A i \in DOMAIN w.inodes[f] : w.inodes[f][i].nlink >= -MaxDrift
    /\ \A b \in DOMAIN w.bufs : Len(w.bufs[b]) <= MaxLen
    /\ \A f \in FsIds : Len(w.fs[f].dirStack) <= MaxStack
    /\ w.clock <= MaxTime

Commit(w0) ==
    \E w \in {Gc(w0)} :
        /\ Bounded(w)
        /\ fs' = w.fs
        /\ inodes' = w.inodes
        /\ bufs' = w.bufs
        /\ devCount' = w.devCount
        /\ inoCount' = w.inoCount
        /\ fdCount' = w.fdCount
        /\ clock' = w.clock
        /\ ret' = w.ret

FilePaths == {<<RootName, "a">>, <<RootName, "b">>}

Targets == {<<RootName, "a">>}

Others == {<<RootName, "b">>}

Bytes == {1, 2}

Modes == {292}

Datas == UNION {[1..n -> Bytes] : n \in 0..MaxLen}

\* The whole files the actions write: <<>>, <<1>>, <<1, 2>>, ...
Texts == {[k \in 1..n |-> k] : n \in 0..MaxLen}

EmptyWorld ==
    [fs |-> [f \in FsIds |-> IF f = 1 THEN [NewFs EXCEPT !.live = TRUE] ELSE NewFs],
     inodes |-> [f \in FsIds |-> <<>>], bufs |-> <<>>,
     devCount |-> 0, inoCount |-> 0, fdCount |-> 0, clock |-> 0,
     ret |-> [op |-> "new", fs |-> 1, err |-> "OK", n |-> 0, data |-> <<>>,
              stat |-> NoStat, names |-> {}],
     calls |-> NoCalls]

Start(w) ==
    /\ fs = w.fs
    /\ inodes = w.inodes
    /\ bufs = w.bufs
    /\ devCount = w.devCount
    /\ inoCount = w.inoCount
    /\ fdCount = w.fdCount
    /\ clock = w.clock
    /\ ret = w.ret

\* new FileSystem(ignoreCase = false) with no files
Init == Start(EmptyWorld)

Mkdir(f, ps) ==
    /\ fs[f].live
    /\ \E p \in ps : Commit(MkdirSync(W, f, p, 511))

Mkdirp(f, ps) ==
    /\ fs[f].live
    /\ \E p \in ps : Commit(MkdirpSync(W, f, p, 511))

Mount(f, ps) ==
    /\ fs[f].live
    /\ \E p \in ps : Commit(MountSync(W, f, ExtSource, p, 511))

Rmdir(f, ps) ==
    /\ fs[f].live
    /\ \E p \in ps : Commit(RmdirSync(W, f, p))

Link(f, ps) ==
    /\ fs[f].live
    /\ \E p \in ps, q \in ps : Commit(LinkSync(W, f, p, q))

Unlink(f, ps) ==
    /\ fs[f].live
    /\ \E p \in ps : Commit(UnlinkSync(W, f, p))

Rename(f, ps, qs) ==
    /\ fs[f].live
    /\ \E p \in ps, q \in qs : Commit(RenameSync(W, f, p, q))

Symlink(f, ts, ps) ==
    /\ fs[f].live
    /\ \E t \in ts, p \in ps : Commit(SymlinkSync(W, f, t, p))

Open(f, ps, flagset) ==
    /\ fs[f].live
    /\ \E p \in ps, fl \in flagset : Commit(OpenSync(W, f, p, fl, 438))

Close(f) ==
    /\ fs[f].live
    /\ \E fd \in DOMAIN fs[f].openFiles : Commit(CloseSync(W, f, fd))

\* Reads ask for MaxLen bytes into a buffer of MaxLen bytes.
Read(f, positions) ==
    /\ fs[f].live
    /\ \E fd \in DOMAIN fs[f].openFiles, position \in positions :
           Commit(ReadSync(W, f, fd, MaxLen, 0, MaxLen, position))

Write(f, datas, positions) ==
    /\ fs[f].live
    /\ \E fd \in DOMAIN fs[f].openFiles, data \in datas, position \in positions :
           Commit(WriteSync(W, f, fd, data, 0, Len(data), position))

WriteFile(f, ps, datas) ==
    /\ fs[f].live
    /\ \E p \in ps, data \in datas : Commit(WriteFileSync(W, f, p, data, ParseFlags("w")))

ReadFile(f, ps) ==
    /\ fs[f].live
    /\ \E p \in ps : Commit(ReadFileSync(W, f, p, ParseFlags("r")))

StatPath(f, ps) ==
    /\ fs[f].live
    /\ \E p \in ps : Commit(StatSync(W, f, p))

LstatPath(f, ps) ==
    /\ fs[f].live
    /\ \E p \in ps : Commit(LstatSync(W, f, p))

ReaddirPath(f, ps) ==
    /\ fs[f].live
    /\ \E p \in ps : Commit(ReaddirSync(W, f, p))

ReadLink(f, ps) ==
    /\ fs[f].live
    /\ \E p \in ps : Commit(ReadlinkSync(W, f, p))

Chmod(f, ps) ==
    /\ fs[f].live
    /\ \E p \in ps, mode \in Modes : Commit(ChmodSync(W, f, p, mode))

ChangeDir(f, ps) ==
    /\ fs[f].live
    /\ \E p \in ps : Commit(Chdir(W, f, "chdir", p))

PushDir(f, ps) ==
    /\ fs[f].live
    /\ \E p \in ps : Commit(Pushd(W, f, p))

PopDir(f) ==
    /\ fs[f].live
    /\ Commit(Popd(W, f))

Freeze(f) ==
    /\ fs[f].live
    /\ Commit(MakeReadonly(W, f))

\* The time source of the file system moves on between two calls.
Tick == Commit([W EXCEPT !.clock = @ + 1, !.ret.op = "time"])

\* A call that throws before it changed anything leaves the program where it
\* was; such a call is a stuttering step.
Effective ==
    <<fs, inodes, bufs, devCount, inoCount, fdCount, clock>>'
        # <<fs, inodes, bufs, devCount, inoCount, fdCount, clock>>

(***************************************************************************)
(* Spec: the directory tree.  One file system, every operation that adds,  *)
(* removes or moves a directory entry.                                     *)
(***************************************************************************)
CreateFlags == {O_WRONLY + O_CREAT}

Next ==
    \/ Mkdir(1, Paths) /\ Effective
    \/ Mkdirp(1, Paths) /\ Effective
    \/ Mount(1, FilePaths) /\ Effective
    \/ Rmdir(1, Paths) /\ Effective
    \/ Link(1, FilePaths) /\ Effective
    \/ Unlink(1, Paths) /\ Effective
    \/ Rename(1, Paths, FilePaths) /\ Effective
    \/ Symlink(1, Targets, FilePaths) /\ Effective
    \/ Open(1, Targets, CreateFlags) /\ Effective
    \/ Close(1) /\ Effective

Spec == Init /\ [][Next]_vars

(***************************************************************************)
(* Properties of the directory tree.                                       *)
(***************************************************************************)
IncomingCount(node) ==
    LET RECURSIVE Sum(_)
        Sum(k) == IF k < 0 THEN 0 ELSE Cardinality(node.incomingLinks[k]) + Sum(k - 1)
    IN  Sum(MaxIno)

\* C1: after any sequence of mkdir, rmdir, link, unlink, rename, symlink, mount
\* and open-with-O_CREAT calls, every inode's nlink equals the sum over all
\* parents of the sizes of its incomingLinks sets.
NlinkIsIncomingLinks ==
    \A f \in FsIds : \A i \in DOMAIN inodes[f] :
        inodes[f][i].nlink = IncomingCount(inodes[f][i])

\* The inodes entered in the link maps of directory i or of a directory below it.
Below(f, i) == LiveNodes(W, f, {inodes[f][i].links[n] : n \in AllNames} \ {0})

\* C9: after any sequence of mkdir, rename, rmdir, link and symlink calls, no
\* directory's link map has an entry for the directory itself or for one of
\* its ancestors (so no directory lies below itself).
NoDirectoryBelowItself ==
    \A f \in FsIds : \A i \in DOMAIN inodes[f] :
        isDirectoryInode(inodes[f][i]) => i \notin Below(f, i)

\* What path p shows of the tree: whether it resolves, with and without
\* following a final symlink, and to which inode.
Resolved(w, p) ==
    [kind |-> Find(w, 1, p).kind, node |-> Find(w, 1, p).node,
     lkind |-> Lfind(w, 1, p).kind, lnode |-> Lfind(w, 1, p).node]

ProbePaths == Paths \cup {<<RootName, x, y>> : x \in Names, y \in Names}

\* rename(a, b) and then rename(b, a) both succeed on world w.
BothRenamesSucceed(w, a, b) ==
    /\ RenameSync(w, 1, a, b).ret.err = "OK"
    /\ RenameSync(RenameSync(w, 1, a, b), 1, b, a).ret.err = "OK"

RoundTripRestores(w, a, b) ==
    BothRenamesSucceed(w, a, b)
        => \A p \in ProbePaths :
              Resolved(RenameSync(RenameSync(w, 1, a, b), 1, b, a), p) = Resolved(w, p)

\* C15 (as stated): for all paths a and b, when rename(a, b) and then
\* rename(b, a) both succeed, the set of resolvable paths and the inode each
\* path resolves to are the same as before the first rename.
RenameRoundTrip == \A a \in Paths, b \in Paths : RoundTripRestores(W, a, b)

\* C15 (as the code has it): the same, for a path b that names no entry
\* before the first rename.
RenameThereAndBack ==
    \A a \in Paths, b \in Paths :
        Lfind(W, 1, b).kind = "none" => RoundTripRestores(W, a, b)

\* rename has just succeeded, and a directory with an entry can be renamed to
\* a free path and back.
RenamedThereAndBack ==
    /\ ret.op = "rename" /\ ret.err = "OK"
    /\ \E a \in Paths, b \in Paths :
          /\ Lfind(W, 1, b).kind = "none"
          /\ BothRenamesSucceed(W, a, b)
          /\ isDirectoryInode(Node(W, 1, Lfind(W, 1, a).node))
          /\ LinksSize(Node(W, 1, Lfind(W, 1, a).node).links) > 0

\* The same world at a later time.
Later(w) == [w EXCEPT !.clock = @ + 1]

\* Everything a call can change.
Whole(w) == <<w.fs, w.inodes, w.bufs, w.devCount, w.inoCount, w.fdCount>>

MkdirpTwice(w, p) ==
    LET first == MkdirpSync(w, 1, p, 511)
        second == MkdirpSync(Later(first), 1, p, 511)
    IN  first.ret.err = "OK"
            => /\ second.ret.err = "OK"
               /\ Whole(second) = Whole(first)

\* C16: mkdirp(p) is idempotent: a second mkdirp(p) directly after a
\* successful first one succeeds and changes nothing (no new inode, no change
\* of a link map, link count or time stamp).
MkdirpIdempotent == \A p \in ProbePaths : MkdirpTwice(W, p)

\* mkdirp has just made /a/b and the directory above it.
MkdirpMadeParents ==
    /\ ret.op = "mkdirp" /\ ret.err = "OK"
    /\ Find(W, 1, <<RootName, "a", "b">>).kind = "ok"
    /\ isDirectoryInode(Node(W, 1, Find(W, 1, <<RootName, "a", "b">>).node))
    /\ inoCount = 3

(***************************************************************************)
(* SpecIO: descriptors.  One file system whose root directory exists;      *)
(* files are opened, read, written, closed, unlinked and renamed.          *)
(***************************************************************************)

IOModes == {ParseFlags("r+"), ParseFlags("w+")}

Patches == {<<b>> : b \in Bytes}

InitIO == Start(Gc(MkdirSync(EmptyWorld, 1, <<RootName>>, 511)))

NextIO ==
    \/ Open(1, FilePaths, IOModes) /\ Effective
    \/ Read(1, {-1, 0}) /\ Effective
    \/ Write(1, Patches, {-1, 0}) /\ Effective
    \/ Close(1) /\ Effective
    \/ Unlink(1, FilePaths) /\ Effective
    \/ Rename(1, FilePaths, FilePaths) /\ Effective

SpecIO == InitIO /\ [][NextIO]_vars

\* The world after the step.
Wn ==
    [fs |-> fs', inodes |-> inodes', bufs |-> bufs', devCount |-> devCount',
     inoCount |-> inoCount', fdCount |-> fdCount', clock |-> clock', ret |-> ret',
     calls |-> NoCalls]

\* What readFileSync(p) and statSync(p) return in world w: the error, the
\* bytes, the size.
Seen(w, f, p) ==
    LET r == ReadFileSync(w, f, p, ParseFlags("r"))
        t == StatSync(w, f, p)
    IN  [err |-> r.ret.err, data |-> r.ret.data, stat |-> t.ret.err, size |-> t.ret.stat.size]

\* C3: writeSync on a descriptor (opened without O_SYNC) never changes the
\* inode's stored contents, which are what stat().size and a freshly opened
\* descriptor observe, whatever reads and writes the descriptor did before.
WriteStaysPrivate ==
    \A fd \in DOMAIN fs[1].openFiles, data \in Patches, position \in {-1, 0} :
        ~Has(fs[1].openFiles[fd].flags, O_SYNC)
            => \A p \in FilePaths :
                   Seen(WriteSync(W, 1, fd, data, 0, Len(data), position), 1, p)
                       = Seen(W, 1, p)

\* What readSync at position 0, writeSync at position 0 and fstatSync make of
\* descriptor fd in world w.
Through(w, f, fd) ==
    LET r == ReadSync(w, f, fd, MaxLen, 0, MaxLen, 0)
        u == WriteSync(w, f, fd, <<1>>, 0, 1, 0)
        t == FstatSync(w, f, fd)
    IN  [read |-> r.ret.err, n |-> r.ret.n, data |-> r.ret.data, write |-> u.ret.err,
         fstat |-> t.ret.err, ino |-> t.ret.stat.ino, size |-> t.ret.stat.size]

DescriptorStep ==
    /\ ret'.op \in {"unlink", "rename"}
        => \A fd \in DOMAIN fs[1].openFiles :
              /\ fd \in DOMAIN fs'[1].openFiles
              /\ fs'[1].openFiles[fd].node = fs[1].openFiles[fd].node
              /\ Through(Wn, 1, fd) = Through(W, 1, fd)
              /\ Through(Wn, 1, fd).fstat = "OK"
    /\ ret'.op = "close"
        => /\ fs'[1].links = fs[1].links
           /\ \A i \in DOMAIN inodes'[1] : inodes'[1][i].links = inodes[1][i].links

\* C10: a descriptor stays valid when the path it was opened on is unlinked or
\* renamed: it keeps its inode, and readSync, writeSync and fstatSync through
\* it give what they gave before; closing a descriptor changes no link map.
DescriptorSurvives == [][DescriptorStep]_vars

\* A w+ descriptor whose file has been unlinked has just read back the byte
\* that was written through it.
ReadAfterUnlink ==
    /\ ret.op = "read" /\ ret.err = "OK" /\ ret.n = 1
    /\ \E fd \in DOMAIN fs[1].openFiles :
          /\ fs[1].openFiles[fd].flags = ParseFlags("w+")
          /\ inodes[1][fs[1].openFiles[fd].node].nlink = 0
          /\ \A n \in AllNames : \A i \in DOMAIN inodes[1] :
                inodes[1][i].links[n] # fs[1].openFiles[fd].node

(***************************************************************************)
(* SpecFile: whole files.  One file system whose root directory exists;    *)
(* files are written and read in one call, symlinked and unlinked.         *)
(***************************************************************************)
NextFile ==
    \/ WriteFile(1, FilePaths, Texts) /\ Effective
    \/ ReadFile(1, FilePaths) /\ Effective
    \/ Symlink(1, Targets, FilePaths) /\ Effective
    \/ Link(1, FilePaths) /\ Effective
    \/ Unlink(1, FilePaths) /\ Effective

SpecFile == InitIO /\ [][NextFile]_vars

\* p is absent from an existing directory, or a file, or a symlink to a file.
Writable(w, f, p) ==
    LET l == Lfind(w, f, p)
        t == Find(w, f, p)
        d == Find(w, f, Dirname(p))
    IN  \/ l.kind = "none" /\ d.kind = "ok" /\ isDirectoryInode(Node(d.w, f, d.node))
        \/ l.kind = "ok" /\ isFileInode(Node(l.w, f, l.node))
        \/ /\ l.kind = "ok" /\ isSymlinkInode(Node(l.w, f, l.node))
           /\ t.kind = "ok" /\ isFileInode(Node(t.w, f, t.node))

\* C6: for every path p that is absent from an existing directory, or a file
\* with shorter or longer content, or a symlink to a file, and all bytes X,
\* writeFile(p, X) with the default flag succeeds and readFile(p) then returns X.
WriteFileThenReadFile ==
    \A p \in Paths, X \in Datas :
        Writable(W, 1, p)
            => LET w1 == WriteFileSync(W, 1, p, X, ParseFlags("w"))
                   r == ReadFileSync(w1, 1, p, ParseFlags("r"))
               IN  w1.ret.err = "OK" /\ r.ret.err = "OK" /\ r.ret.data = X

\* writeFile has just stored MaxLen bytes in a file that a symlink leads to:
\* writing less through the symlink meets longer content.
WroteBehindSymlink ==
    /\ ret.op = "writeFile" /\ ret.err = "OK"
    /\ \E p \in FilePaths :
          /\ Lfind(W, 1, p).kind = "ok"
          /\ isSymlinkInode(Node(W, 1, Lfind(W, 1, p).node))
          /\ Seen(W, 1, p).err = "OK" /\ Len(Seen(W, 1, p).data) = MaxLen

\* The regular file that path x leads to (0: none).
FileAt(w, f, x) ==
    LET Found(r) == IF r.kind = "ok" /\ isFileInode(Node(r.w, f, r.node)) THEN r.node ELSE 0
    IN  Found(Find(w, f, x))

\* The regular file that x itself names, without following a symlink (0: none).
FileNamed(w, f, x) ==
    LET Found(r) == IF r.kind = "ok" /\ isFileInode(Node(r.w, f, r.node)) THEN r.node ELSE 0
    IN  Found(Lfind(w, f, x))

LinkCounts(w, x, y) ==
    LET i == FileAt(w, 1, x)
        r == LinkSync(w, 1, x, y)
    IN  i # 0 /\ r.ret.err = "OK"
            => /\ FileAt(r, 1, x) = i /\ FileAt(r, 1, y) = i
               /\ Node(r, 1, i).nlink = Node(w, 1, i).nlink + 1

UnlinkCounts(w, x) ==
    LET i == FileNamed(w, 1, x)
        u == UnlinkSync(w, 1, x)
    IN  i # 0
            => /\ u.ret.err = "OK"
               /\ Node(u, 1, i).nlink = Node(w, 1, i).nlink - 1
               /\ \A y \in Paths \ {x} :
                     FileNamed(w, 1, y) = i
                         => /\ FileNamed(u, 1, y) = i
                            /\ Seen(u, 1, y).err = "OK"
                            /\ Seen(u, 1, y) = Seen(w, 1, y)

\* C11: for a regular file, link(x, y) makes x and y resolve to the same
\* inode and raises its nlink by exactly one; unlink of one of its names
\* lowers nlink by exactly one and leaves the inode and its contents readable
\* through every remaining name.
HardLinkAccounting ==
    \A x \in Paths :
        /\ UnlinkCounts(W, x)
        /\ \A y \in Paths : LinkCounts(W, x, y)

(***************************************************************************)
(* SpecLinks: directories and symbolic links with absolute and relative    *)
(* targets, some of them dangling or circular, and the calls that look at  *)
(* them.                                                                   *)
(***************************************************************************)
LinkTargets == {<<RootName>>, <<RootName, "a">>, <<RootName, "b">>, <<"a">>, <<"b">>}

NextLinks ==
    \/ Mkdir(1, Paths) /\ Effective
    \/ Symlink(1, LinkTargets, FilePaths) /\ Effective
    \/ Unlink(1, FilePaths) /\ Effective
    \/ StatPath(1, FilePaths)
    \/ LstatPath(1, FilePaths)
    \/ ReadLink(1, FilePaths)

SpecLinks == Init /\ [][NextLinks]_vars

\* The path resolution the walk is to implement, as rewriting: Scan goes down
\* the directories named by comps and stops at the first symlink that is to
\* be followed (link: its position, 0 if there is none; node: the inode the
\* scan ended at, 0 if the path names nothing).
RECURSIVE Scan(_, _, _, _, _)
Scan(w, comps, noFollow, k, d) ==
    LET i == Lookup(LinksOf(w, 1, d), comps[k])
    IN  IF i = 0 THEN [link |-> 0, node |-> 0]
        ELSE IF isSymlinkInode(Node(w, 1, i)) /\ ~(noFollow /\ k = Len(comps))
        THEN [link |-> k, node |-> i]
        ELSE IF k = Len(comps) THEN [link |-> 0, node |-> i]
        ELSE IF isDirectoryInode(Node(w, 1, i)) THEN Scan(w, comps, noFollow, k + 1, i)
        ELSE [link |-> 0, node |-> 0]

\* The path with the symlink at position k replaced by its target.
Rewritten(w, comps, k, i) ==
    Resolve(SubSeq(comps, 1, k - 1), Node(w, 1, i).symlink) \o SubSeq(comps, k + 1, Len(comps))

\* The number n of symlink expansions the resolution of comps needs (counted
\* up to LoopBudget + 1) and the inode it ends at.
RECURSIVE Expansions(_, _, _, _)
Expansions(w, comps, noFollow, n) ==
    LET s == Scan(w, comps, noFollow, 1, 0)
    IN  IF s.link = 0 \/ n > LoopBudget THEN [n |-> n, node |-> s.node]
        ELSE Expansions(w, Rewritten(w, comps, s.link, s.node), noFollow, n + 1)

Repeated(name, n) == [k \in 1..n |-> name]

\* Lengths around the budget, its half and its third.
LongLens ==
    {0, 1, 2, LoopBudget \div 3, LoopBudget \div 3 + 1, LoopBudget \div 2 - 1, LoopBudget \div 2,
     LoopBudget - 2, LoopBudget - 1, LoopBudget, LoopBudget + 1}

LongPaths ==
    {<<RootName>> \o Repeated(x, n) : x \in Names, n \in LongLens}
        \cup {<<RootName>> \o Repeated("a", n) \o <<"b">> : n \in LongLens}

WalkWithin(w, path, noFollow) ==
    LET e == Expansions(w, path, noFollow, 0)
        r == Walk(w, 1, path, noFollow)
    IN  IF e.n >= LoopBudget THEN r.kind = "err" /\ r.err = "ELOOP"
        ELSE /\ r.err # "ELOOP"
             /\ r.kind = "ok" <=> e.node # 0
             /\ r.kind = "ok" => r.node = e.node

\* C12: a single walk succeeds when it needs at most 39 symlink expansions
\* and fails with ELOOP when it needs 40 or more, the expansions counted over
\* the whole walk and not per path component.
WalkLoopBudget ==
    \A path \in LongPaths, noFollow \in BOOLEAN : WalkWithin(W, path, noFollow)

\* symlink has just made a link through which one path needs exactly 39
\* expansions and resolves, and another needs exactly 40.
WalkAtTheBudget ==
    /\ ret.op = "symlink" /\ ret.err = "OK"
    /\ \E path \in LongPaths :
          /\ Expansions(W, path, FALSE, 0).n = LoopBudget - 1
          /\ Find(W, 1, path).kind = "ok"
    /\ \E path \in LongPaths :
          /\ Expansions(W, path, FALSE, 0).n = LoopBudget
          /\ Find(W, 1, path).err = "ELOOP"

NoFollowPaths ==
    FilePaths \cup {<<RootName, x, y>> : x \in Names, y \in Names}

\* The inode entered under the last component of p in the directory that the
\* rest of p leads to, symlinks followed (0: none).
Named(w, p) ==
    LET Found(r) ==
            IF r.kind = "ok" /\ isDirectoryInode(Node(r.w, 1, r.node))
            THEN Lookup(LinksOf(r.w, 1, r.node), Basename(p)) ELSE 0
    IN  Found(Find(w, 1, Dirname(p)))

NamesSymlink(w, p) == Named(w, p) # 0 /\ isSymlinkInode(Node(w, 1, Named(w, p)))

NoFollowGivesLink(w, p) ==
    LET i == Named(w, p)
        l == LstatSync(w, 1, p)
        k == ReadlinkSync(w, 1, p)
        u == UnlinkSync(w, 1, p)
        o == OpenSync(w, 1, p, O_RDONLY + O_NOFOLLOW, 438)
    IN  /\ Lfind(w, 1, p).kind = "ok" /\ Lfind(w, 1, p).node = i
        /\ l.ret.err = "OK" /\ l.ret.stat.ino = Node(w, 1, i).ino
        /\ TypeBits(l.ret.stat.mode) = S_IFLNK
        /\ k.ret.err = "OK" /\ k.ret.data = Node(w, 1, i).symlink
        /\ u.ret.err = "OK" /\ Named(u, p) = 0
        /\ \A j \in DOMAIN w.inodes[1] \ {i} : Node(u, 1, j).nlink = Node(w, 1, j).nlink
        /\ o.ret.err = "OK" /\ o.fs[1].openFiles[o.ret.n].node = i
        /\ \A q \in FilePaths :
              LET r == RenameSync(w, 1, p, q)
              IN  r.ret.err = "OK" => Named(r, q) = i

SelfLink(w, p) ==
    /\ Len(p) = 2 /\ NamesSymlink(w, p)
    /\ Resolve(Dirname(p), Node(w, 1, Named(w, p)).symlink) = p

\* C13: lstat, readlink, unlink, the source of rename and open with
\* O_NOFOLLOW act on a symlink in the final component itself, not on its
\* target, while symlinks in the other components are followed; for a
\* symlink l whose target is l, stat(l) fails with ELOOP and lstat(l)
\* succeeds and reports a symlink.
NoFollowStopsAtLink ==
    \A p \in NoFollowPaths :
        /\ NamesSymlink(W, p) => NoFollowGivesLink(W, p)
        /\ SelfLink(W, p)
              => /\ StatSync(W, 1, p).ret.err = "ELOOP"
                 /\ LstatSync(W, 1, p).ret.err = "OK"
                 /\ TypeBits(LstatSync(W, 1, p).ret.stat.mode) = S_IFLNK

\* lstat has just reported a symlink, one symlink is reached through another
\* one, and one symlink points at itself.
LstatBehindLink ==
    /\ ret.op = "lstat" /\ ret.err = "OK" /\ TypeBits(ret.stat.mode) = S_IFLNK
    /\ \E p \in NoFollowPaths :
          /\ Len(p) = 3 /\ NamesSymlink(W, p)
          /\ NamesSymlink(W, Dirname(p))
    /\ \E p \in FilePaths : SelfLink(W, p)

ReadlinkGives(w, t, l) ==
    LET r == SymlinkSync(w, 1, t, l)
    IN  r.ret.err = "OK"
            => /\ ReadlinkSync(r, 1, l).ret.err = "OK"
               /\ ReadlinkSync(r, 1, l).ret.data = t

\* C17: after symlink(t, l) succeeds, readlink(l) returns exactly t, for
\* relative and absolute t, whether or not t resolves to an existing entry.
SymlinkThenReadlink ==
    \A t \in LinkTargets, l \in ProbePaths : ReadlinkGives(W, t, l)

(***************************************************************************)
(* SpecShadow: a frozen file system (1) and a shadow of it (2), on which   *)
(* every operation runs.  The parent holds a file, or a directory with a   *)
(* file, or a file and a symlink to it.                                    *)
(***************************************************************************)
RootOnly == MkdirSync(EmptyWorld, 1, <<RootName>>, 511)

Parents ==
    {WriteFileSync(RootOnly, 1, <<RootName, "a">>, <<1>>, ParseFlags("w")),
     WriteFileSync(MkdirSync(RootOnly, 1, <<RootName, "a">>, 511), 1,
                   <<RootName, "a", "b">>, <<1>>, ParseFlags("w")),
     SymlinkSync(WriteFileSync(RootOnly, 1, <<RootName, "a">>, <<1>>, ParseFlags("w")),
                 1, <<RootName, "a">>, <<RootName, "b">>)}

\* fs.makeReadonly().shadow()
ShadowStarts == {Gc(Shadow(MakeReadonly(w, 1), 1, 2)) : w \in Parents}

InitShadow == \E w \in ShadowStarts : Start(w)

ShadowModes == {ParseFlags("r"), ParseFlags("r+")}

NextShadow ==
    \/ Open(2, Paths, ShadowModes) /\ Effective
    \/ Read(2, {0}) /\ Effective
    \/ Write(2, Patches, {0}) /\ Effective
    \/ Close(2) /\ Effective
    \/ Unlink(2, FilePaths) /\ Effective
    \/ Rename(2, FilePaths, FilePaths) /\ Effective
    \/ Chmod(2, Targets) /\ Effective
    \/ Mkdir(2, FilePaths) /\ Effective
    \/ WriteFile(2, Paths, Texts) /\ Effective

SpecShadow == InitShadow /\ [][NextShadow]_vars

\* What the parent returns for readFile, stat and readdir of p.
ParentSeen(w, p) ==
    [file |-> Seen(w, 1, p), stat |-> StatSync(w, 1, p).ret.stat,
     dir |-> ReaddirSync(w, 1, p).ret.err, names |-> ReaddirSync(w, 1, p).ret.names]

\* C2: no operation on a shadow child changes what its frozen parent returns
\* for readFile, stat or readdir on any path.
ChildLeavesParent ==
    [][ret'.fs = 2 => \A p \in Paths : ParentSeen(Wn, p) = ParentSeen(W, p)]_vars

\* The child's file i is still the parent's: it has no buffer of its own.
Unwritten(w, i) ==
    /\ i \in DOMAIN w.inodes[2] /\ i \in DOMAIN w.inodes[1]
    /\ w.inodes[2][i].shadowRoot
    /\ w.inodes[2][i].buffer \in {0, w.inodes[1][i].buffer}

\* p names the same file in the parent and in the child.
SharedFile(w, p) ==
    LET c == StatSync(w, 2, p)
        q == StatSync(w, 1, p)
    IN  /\ c.ret.err = "OK" /\ q.ret.err = "OK"
        /\ c.ret.stat.ino = q.ret.stat.ino
        /\ isFileInode(q.ret.stat)

\* C7: a shadow child's readFile(p) returns the parent's content until the
\* child writes p; after writeFile(p, Y) in the child, the child reads Y with
\* size |Y| under the unchanged inode number, which is the parent's, and the
\* parent reads what it read before.
ShadowCopyOnWrite ==
    \A p \in Paths :
        SharedFile(W, p)
            => /\ Unwritten(W, StatSync(W, 1, p).ret.stat.ino)
                    => Seen(W, 2, p) = Seen(W, 1, p)
               /\ \A Y \in Datas :
                     LET w1 == WriteFileSync(W, 2, p, Y, ParseFlags("w"))
                     IN  /\ w1.ret.err = "OK"
                         /\ Seen(w1, 2, p) = [err |-> "OK", data |-> Y,
                                              stat |-> "OK", size |-> Len(Y)]
                         /\ StatSync(w1, 2, p).ret.stat.ino = StatSync(W, 1, p).ret.stat.ino
                         /\ \A q \in Paths : Seen(w1, 1, q) = Seen(W, 1, q)

\* The child has just written a file it shares with the parent, and now reads
\* other bytes than the parent under the same inode number.
ChildWroteSharedFile ==
    /\ ret.op = "writeFile" /\ ret.fs = 2 /\ ret.err = "OK"
    /\ \E p \in Paths :
          /\ SharedFile(W, p)
          /\ ~Unwritten(W, StatSync(W, 1, p).ret.stat.ino)
          /\ Seen(W, 2, p).err = "OK" /\ Seen(W, 1, p).err = "OK"
          /\ Seen(W, 2, p).data # Seen(W, 1, p).data

(***************************************************************************)
(* SpecLazy: the same parents and child, but the child is only read:       *)
(* paths are stat'ed, opened for reading, read and closed in any order.    *)
(***************************************************************************)
ReadModes == {ParseFlags("r")}

NextLazy ==
    \/ StatPath(2, Paths) /\ Effective
    \/ Open(2, Paths, ReadModes) /\ Effective
    \/ Read(2, {-1, 0}) /\ Effective
    \/ Close(2) /\ Effective
    \/ ReadFile(2, Paths) /\ Effective

SpecLazy == InitShadow /\ [][NextLazy]_vars

\* C8: in a shadow child on which no mutating operation was performed, for
\* every path that resolves in the parent, stat returns the same dev, ino and
\* size as in the parent, in whatever order the child first accessed paths.
ShadowStatAgrees ==
    \A p \in Paths :
        LET q == StatSync(W, 1, p)
            c == StatSync(W, 2, p)
        IN  q.ret.err = "OK"
                => /\ c.ret.err = "OK"
                   /\ c.ret.stat.dev = q.ret.stat.dev
                   /\ c.ret.stat.ino = q.ret.stat.ino
                   /\ c.ret.stat.size = q.ret.stat.size

\* The child has just stat'ed a file of the parent after its link maps were
\* materialised, and got the parent's size.
ChildStatOfFile ==
    /\ ret.op = "stat" /\ ret.fs = 2 /\ ret.err = "OK"
    /\ isFileInode(ret.stat) /\ ret.stat.size > 0
    /\ fs[2].hasLinks
    /\ \E p \in Paths : StatSync(W, 1, p).ret.stat = ret.stat

(***************************************************************************)
(* SpecFrozen: one file system that is built up, then frozen with          *)
(* makeReadonly, and used further.  Descriptors may be open at the freeze. *)
(***************************************************************************)
FrozenFlags == {O_RDONLY + O_CREAT, O_RDONLY + O_TRUNC, O_RDWR}

NextFrozen ==
    \/ Mkdir(1, Targets) /\ Effective
    \/ Symlink(1, Targets, Others) /\ Effective
    \/ Open(1, FilePaths, FrozenFlags) /\ Effective
    \/ Write(1, Patches, {0}) /\ Effective
    \/ Close(1) /\ Effective
    \/ ChangeDir(1, Targets) /\ Effective
    \/ PushDir(1, Targets) /\ Effective
    \/ PopDir(1) /\ Effective
    \/ Freeze(1) /\ Effective
    \/ Tick /\ Effective

SpecFrozen == InitIO /\ [][NextFrozen]_vars

\* The stored bytes of inode i (an inode without a buffer holds none).
Stored(w, f, i) == IF Node(w, f, i).buffer = 0 THEN <<>> ELSE w.bufs[Node(w, f, i).buffer]

\* What freezing is to keep of inode i: link map, contents, size, mode, link
\* count and time stamps.
Kept(w, f, i) ==
    [links |-> Node(w, f, i).links, bytes |-> Stored(w, f, i),
     size |-> GetSize(w, f, i).n, mode |-> Node(w, f, i).mode,
     nlink |-> Node(w, f, i).nlink, atimeMs |-> Node(w, f, i).atimeMs,
     mtimeMs |-> Node(w, f, i).mtimeMs, ctimeMs |-> Node(w, f, i).ctimeMs]

FrozenStep ==
    fs[1].frozen
        => /\ fs'[1].links = fs[1].links
           /\ \A i \in DOMAIN inodes[1] :
                 i \in DOMAIN inodes'[1] => Kept(Wn, 1, i) = Kept(W, 1, i)

\* C4: once makeReadonly has been called, no later operation changes any
\* directory link map, inode content, size, mode, link count or time stamp
\* of that file system.
FrozenStaysFrozen == [][FrozenStep]_vars

\* The same world with file system f not frozen.
Unfrozen(w, f) == [w EXCEPT !.fs[f].frozen = FALSE]

\* World r holds what world w holds, but for link maps of directories that
\* were brought into being on the way (an empty map for none).
SameButLazy(r, w, f) ==
    /\ [r.fs[f] EXCEPT !.hasLinks = TRUE] = [w.fs[f] EXCEPT !.hasLinks = TRUE]
    /\ DOMAIN r.inodes[f] = DOMAIN w.inodes[f]
    /\ \A i \in DOMAIN w.inodes[f] :
          [r.inodes[f][i] EXCEPT !.hasLinks = TRUE] = [w.inodes[f][i] EXCEPT !.hasLinks = TRUE]
    /\ r.bufs = w.bufs
    /\ <<r.devCount, r.inoCount, r.fdCount>> = <<w.devCount, w.inoCount, w.fdCount>>

\* r is the outcome of a call on the frozen world w, u of the same call on
\* the unfrozen one: the call fails as u does when u fails an argument or
\* path check, else with `code`, and changes nothing.
Rejects(r, u, w, code) ==
    /\ r.ret.err = (IF u.ret.err \in {"OK", "RangeError"} THEN code ELSE u.ret.err)
    /\ SameButLazy(r, w, 1)

WritingFlags == {O_WRONLY, O_RDWR, O_WRONLY + O_CREAT, O_RDWR + O_TRUNC, O_WRONLY + O_APPEND}

\* C5 (as the code has it): on a frozen file system every call of mkdir,
\* rmdir, link, unlink, rename, symlink, chmod and mount fails and changes
\* nothing, with the error of its argument and path checks (ENOENT, ENOTDIR,
\* EEXIST, EISDIR, ENOTEMPTY, EPERM, ELOOP) when one of them fails and with
\* EROFS otherwise; open with a writing access mode always fails with EROFS;
\* chdir, pushd and popd always fail with EPERM.
FrozenRejects ==
    fs[1].frozen =>
        /\ \A p \in Paths :
              /\ Rejects(MkdirSync(W, 1, p, 511), MkdirSync(Unfrozen(W, 1), 1, p, 511), W, "EROFS")
              /\ Rejects(MountSync(W, 1, ExtSource, p, 511),
                         MountSync(Unfrozen(W, 1), 1, ExtSource, p, 511), W, "EROFS")
              /\ Rejects(RmdirSync(W, 1, p), RmdirSync(Unfrozen(W, 1), 1, p), W, "EROFS")
              /\ Rejects(UnlinkSync(W, 1, p), UnlinkSync(Unfrozen(W, 1), 1, p), W, "EROFS")
              /\ Rejects(ChmodSync(W, 1, p, 292), ChmodSync(Unfrozen(W, 1), 1, p, 292), W, "EROFS")
              /\ \A q \in Paths :
                    /\ Rejects(LinkSync(W, 1, p, q), LinkSync(Unfrozen(W, 1), 1, p, q), W, "EROFS")
                    /\ Rejects(RenameSync(W, 1, p, q), RenameSync(Unfrozen(W, 1), 1, p, q),
                               W, "EROFS")
                    /\ Rejects(SymlinkSync(W, 1, p, q), SymlinkSync(Unfrozen(W, 1), 1, p, q),
                               W, "EROFS")
              /\ \A fl \in WritingFlags :
                    /\ OpenSync(W, 1, p, fl, 438).ret.err = "EROFS"
                    /\ SameButLazy(OpenSync(W, 1, p, fl, 438), W, 1)
              /\ Chdir(W, 1, "chdir", p).ret.err = "EPERM"
              /\ SameButLazy(Chdir(W, 1, "chdir", p), W, 1)
              /\ Pushd(W, 1, p).ret.err = "EPERM"
              /\ SameButLazy(Pushd(W, 1, p), W, 1)
        /\ Pushd(W, 1, NoPath).ret.err = "EPERM"
        /\ Popd(W, 1).ret.err = "EPERM"
        /\ SameButLazy(Popd(W, 1), W, 1)

\* C5 as stated: on a frozen file system every call of mkdir, rmdir, link,
\* unlink, rename, symlink, chmod, mount and of open with a writing access
\* mode fails with EROFS, and every call of chdir, pushd and popd with EPERM.
FrozenAlwaysErofs ==
    fs[1].frozen =>
        /\ \A p \in Paths :
              /\ MkdirSync(W, 1, p, 511).ret.err = "EROFS"
              /\ MountSync(W, 1, ExtSource, p, 511).ret.err = "EROFS"
              /\ RmdirSync(W, 1, p).ret.err = "EROFS"
              /\ UnlinkSync(W, 1, p).ret.err = "EROFS"
              /\ ChmodSync(W, 1, p, 292).ret.err = "EROFS"
              /\ \A q \in Paths :
                    /\ LinkSync(W, 1, p, q).ret.err = "EROFS"
                    /\ RenameSync(W, 1, p, q).ret.err = "EROFS"
                    /\ SymlinkSync(W, 1, p, q).ret.err = "EROFS"
              /\ \A fl \in WritingFlags : OpenSync(W, 1, p, fl, 438).ret.err = "EROFS"
              /\ Chdir(W, 1, "chdir", p).ret.err = "EPERM"
              /\ Pushd(W, 1, p).ret.err = "EPERM"
        /\ Popd(W, 1).ret.err = "EPERM"

\* The file system has just been frozen while it holds a directory /a (so
\* mkdir("/a") meets EEXIST) and lacks /b (so mkdir("/b") would succeed on
\* the unfrozen file system).
FrozenWithWork ==
    /\ fs[1].frozen /\ ret.op = "makeReadonly"
    /\ MkdirSync(W, 1, <<RootName, "a">>, 511).ret.err = "EEXIST"
    /\ MkdirSync(Unfrozen(W, 1), 1, <<RootName, "b">>, 511).ret.err = "OK"
    /\ MkdirSync(W, 1, <<RootName, "b">>, 511).ret.err = "EROFS"

(***************************************************************************)
(* SpecCalls: one file system and the fifteen calls that change it, among  *)
(* them the ones that move the working directory.                          *)
(***************************************************************************)
CallFlags == {O_RDWR + O_CREAT}

NextCalls ==
    \/ Mkdir(1, {<<RootName>>} \cup Targets) /\ Effective
    \/ Rmdir(1, Targets) /\ Effective
    \/ Link(1, FilePaths) /\ Effective
    \/ Unlink(1, Others) /\ Effective
    \/ Rename(1, Targets, Others) /\ Effective
    \/ Symlink(1, Targets, Others) /\ Effective
    \/ Chmod(1, Targets) /\ Effective
    \/ Mount(1, Others) /\ Effective
    \/ Open(1, Targets, CallFlags) /\ Effective
    \/ Read(1, {0}) /\ Effective
    \/ Write(1, {<<1>>}, {0}) /\ Effective
    \/ Close(1) /\ Effective
    \/ ChangeDir(1, Targets) /\ Effective
    \/ PushDir(1, Targets) /\ Effective
    \/ PopDir(1) /\ Effective

SpecCalls == Init /\ [][NextCalls]_vars

\* The call that gave world r from world w failed and changed something.
Torn(r, w) == r.ret.err # "OK" /\ ~SameButLazy(r, w, 1)

\* C14: a call of mkdir, rmdir, link, unlink, rename, symlink, chmod, mount,
\* open, read, write, close, chdir, pushd or popd that fails leaves the link
\* maps, the inodes, the working directory, the directory stack and the table
\* of open files as they were.
FailedCallChangesNothing ==
    /\ \A p \in Paths :
          /\ ~Torn(MkdirSync(W, 1, p, 511), W)
          /\ ~Torn(RmdirSync(W, 1, p), W)
          /\ ~Torn(UnlinkSync(W, 1, p), W)
          /\ ~Torn(ChmodSync(W, 1, p, 292), W)
          /\ ~Torn(MountSync(W, 1, ExtSource, p, 511), W)
          /\ ~Torn(Chdir(W, 1, "chdir", p), W)
          /\ ~Torn(Pushd(W, 1, p), W)
          /\ \A q \in Paths :
                /\ ~Torn(LinkSync(W, 1, p, q), W)
                /\ ~Torn(RenameSync(W, 1, p, q), W)
                /\ ~Torn(SymlinkSync(W, 1, p, q), W)
          /\ \A fl \in WritingFlags \cup {O_RDONLY, O_RDONLY + O_DIRECTORY, O_WRONLY + O_CREAT + O_EXCL} :
                ~Torn(OpenSync(W, 1, p, fl, 438), W)
    /\ ~Torn(Popd(W, 1), W)
    /\ \A fd \in 1..(fdCount + 1) :
          /\ ~Torn(CloseSync(W, 1, fd), W)
          /\ ~Torn(ReadSync(W, 1, fd, MaxLen, 0, MaxLen, 0), W)
          /\ \A data \in Patches : ~Torn(WriteSync(W, 1, fd, data, 0, Len(data), 0), W)

\* The entries that name inode i: <<0, n>> in the map of the roots, <<d, n>>
\* in the link map of directory d.
EntriesNaming(i) ==
    {<<0, n>> : n \in {m \in AllNames : fs[1].links[m] = i}}
        \cup {e \in (DOMAIN inodes[1]) \X AllNames : inodes[1][e[1]].links[e[2]] = i}

LinkOfDirectoryFails(w, old, new) ==
    LET Found(r) == r.kind = "ok" /\ isDirectoryInode(Node(r.w, 1, r.node))
    IN  Found(Find(w, 1, old))
            => /\ LinkSync(w, 1, old, new).ret.err = "EPERM"
               /\ SameButLazy(LinkSync(w, 1, old, new), w, 1)

\* C18: in every reachable state each directory inode has nlink at most 1
\* and is named by at most one directory entry of the file system, and
\* link(old, new) with old a directory fails with EPERM and changes nothing.
DirectoriesSingleLinked ==
    /\ \A i \in DOMAIN inodes[1] :
          isDirectoryInode(inodes[1][i])
              => inodes[1][i].nlink <= 1 /\ Cardinality(EntriesNaming(i)) <= 1
    /\ \A old \in Paths, new \in Paths : LinkOfDirectoryFails(W, old, new)

(***************************************************************************)
(* SpecNumbers: two file systems, a frozen one and its shadow, that open   *)
(* and close descriptors and make inodes and devices side by side.         *)
(***************************************************************************)
InitNumbers == Start(Gc(Shadow(MakeReadonly(RootOnly, 1), 1, 2)))

NumberFlags == {O_RDONLY, O_WRONLY + O_CREAT}

NextNumbers ==
    \/ Open(1, {<<RootName>>}, {O_RDONLY})
    \/ Close(1)
    \/ Open(2, Paths, NumberFlags)
    \/ Close(2)
    \/ Write(2, Patches, {0})
    \/ Mkdir(2, FilePaths)
    \/ Mount(2, Others)
    \/ Unlink(2, FilePaths)

SpecNumbers == InitNumbers /\ [][NextNumbers]_vars

\* Every call on descriptor fd of file system f fails with EBADF in world w.
BadDescriptor(w, f, fd) ==
    /\ ReadSync(w, f, fd, MaxLen, 0, MaxLen, 0).ret.err = "EBADF"
    /\ WriteSync(w, f, fd, <<1>>, 0, 1, 0).ret.err = "EBADF"
    /\ FstatSync(w, f, fd).ret.err = "EBADF"
    /\ CloseSync(w, f, fd).ret.err = "EBADF"

\* The inodes of file system f made in this step (not the shadows of older ones).
Fresh(f) ==
    {i \in DOMAIN inodes'[f] : /\ i \notin DOMAIN inodes[f]
                                /\ ~inodes'[f][i].shadowRoot}

Devices == UNION {{inodes[f][i].dev : i \in DOMAIN inodes[f]} : f \in FsIds}

NumbersStep ==
    /\ fdCount' >= fdCount /\ inoCount' >= inoCount /\ devCount' >= devCount
    /\ ret'.op = "open" /\ ret'.err = "OK" => ret'.n > fdCount /\ ret'.n = fdCount'
    /\ \A f \in FsIds :
          /\ \A fd \in DOMAIN fs'[f].openFiles :
                fd \in DOMAIN fs[f].openFiles \/ fd > fdCount
          /\ \A fd \in 1..fdCount' :
                fd \notin DOMAIN fs'[f].openFiles => BadDescriptor(Wn, f, fd)
          /\ \A i \in Fresh(f) :
                /\ inodes'[f][i].ino > inoCount /\ inodes'[f][i].ino <= inoCount'
                /\ inodes'[f][i].dev \in Devices
                       \/ (inodes'[f][i].dev > devCount /\ inodes'[f][i].dev <= devCount')

NextMount ==
    \/ Mkdir(1, {<<RootName>>}) /\ Effective
    \/ Mount(1, FilePaths) /\ Effective
    \/ Rmdir(1, FilePaths) /\ Effective
    \/ Unlink(1, ProbePaths) /\ Effective
    \/ StatPath(1, ProbePaths)
    \/ ReaddirPath(1, Paths)
    \/ ReadFile(1, ProbePaths)

SpecMount == Init /\ [][NextMount]_vars

\* The directory inode that p names (0: none).
DirectoryAt(w, p) ==
    LET Found(r) == IF r.kind = "ok" /\ isDirectoryInode(Node(r.w, 1, r.node)) THEN r.node ELSE 0
    IN  Found(Lfind(w, 1, p))

\* Directory i is a mount whose entries have not been read yet.
Unread(w, i) == i # 0 /\ Node(w, 1, i).source # NoSource /\ ~Node(w, 1, i).hasLinks

\* stat and readdir of the directory p and of the entries below it.
Accesses(p) ==
    {[op |-> "stat", path |-> p], [op |-> "readdir", path |-> p]}
        \cup {[op |-> "stat", path |-> p \o <<x>>] : x \in Names}

Access(w, a) ==
    IF a.op = "stat" THEN StatSync(w, 1, a.path) ELSE ReaddirSync(w, 1, a.path)

\* The access needs the entries of p.
Touches(a, p) == a.op = "readdir" \/ a.path # p

Asked(w) == <<w.calls.readdirSync, w.calls.statSync>>

Quiet(w) == [w EXCEPT !.calls = NoCalls]

ReadOnce(w, p, first, second) ==
    LET i == DirectoryAt(w, p)
        r1 == Access(w, first)
        r2 == Access(Quiet(r1), second)
    IN  /\ Unread(w, i) /\ Touches(first, p)
              => /\ Asked(r1) = <<1, Cardinality(ExtReaddir(Node(w, 1, i).source))>>
                 /\ ~Unread(r1, i)
        /\ ~(Unread(w, i) /\ Touches(first, p)) => Asked(r1) = <<0, 0>>
        /\ ~Unread(r1, i) => Asked(r2) = <<0, 0>>

\* C20: a mount directory is read from the resolver at most once: the first
\* access to its entries calls readdirSync(source) once and statSync once for
\* each listed entry, and no later stat or readdir of the directory or of one
\* of its file entries calls readdirSync or statSync again.
MountReadOnce ==
    \A p \in FilePaths :
        DirectoryAt(W, p) # 0
            => \A first \in Accesses(p), second \in Accesses(p) : ReadOnce(W, p, first, second)

\* stat has just read the entries of a mount directory and reports the file
\* in it.
StatBehindMount ==
    /\ ret.op = "stat" /\ ret.err = "OK" /\ TypeBits(ret.stat.mode) = S_IFREG
    /\ \E p \in FilePaths :
          /\ DirectoryAt(W, p) # 0 /\ Node(W, 1, DirectoryAt(W, p)).hasLinks
          /\ \E x \in Names : Node(W, 1, DirectoryAt(W, p)).links[x] # 0

(***************************************************************************)
(* rename onto a path that names an entry.                                 *)
(***************************************************************************)
\* What renameSync finds for rename(old, new) on world w before its tests:
\* the moved inode, its directory, the directory of new with its link map read, and the
\* entry that new names there (0 for none).
RenameFinds(w, old, new) ==
    LET r == Lfind(w, 1, FsResolve(w, 1, old))
        Placed(q) ==
            LET isDir == q.kind = "ok" /\ isDirectoryInode(Node(q.w, 1, q.node))
                w1 == IF isDir THEN GetLinks(q.w, 1, q.node) ELSE q.w
            IN  [found |-> r.kind = "ok" /\ isDir, w |-> w1, node |-> r.node,
                 oldParent |-> r.parent, newParent |-> q.node,
                 existingNode |-> IF r.kind = "ok" /\ isDir
                                  THEN Node(w1, 1, q.node).links[Basename(FsResolve(w, 1, new))]
                                  ELSE 0]
    IN  Placed(Find(r.w, 1, Dirname(FsResolve(w, 1, new))))

\* The kinds of the moved inode and of the entry at the target:
\* "D" directory, "E" directory with no entry, "F" not a directory.
RenameKinds(w, old, new) ==
    LET x == RenameFinds(w, old, new)
        Kind(w1, i, split) ==
            IF ~isDirectoryInode(Node(w1, 1, i)) THEN "F"
            ELSE IF split /\ LinksSize(Node(GetLinks(w1, 1, i), 1, i).links) = 0 THEN "E"
            ELSE "D"
    IN  IF x.found /\ x.existingNode # 0
        THEN <<Kind(x.w, x.node, FALSE), Kind(x.w, x.existingNode, TRUE)>>
        ELSE <<"-", "-">>

\* World r has the link maps and the link counts of world w; the link map of
\* a mounted directory that w had not read yet may have been read.
LinkMapsKept(r, w) ==
    /\ r.fs[1].links = w.fs[1].links
    /\ \A i \in DOMAIN w.inodes[1] :
          /\ r.inodes[1][i].nlink = w.inodes[1][i].nlink
          /\ r.inodes[1][i].incomingLinks = w.inodes[1][i].incomingLinks
          /\ (w.inodes[1][i].hasLinks \/ w.inodes[1][i].source = NoSource)
                => r.inodes[1][i].links = w.inodes[1][i].links

\* rename(old, new) on world w fails with `code` and changes no link map.
RenameRefused(w, old, new, code) ==
    /\ RenameSync(w, 1, old, new).ret.err = code
    /\ LinkMapsKept(RenameSync(w, 1, old, new), w)

\* rename(old, new) on world w succeeds, and new then names the moved inode.
RenameReplaces(w, old, new) ==
    LET x == RenameFinds(w, old, new)
        r == RenameSync(w, 1, old, new)
    IN  /\ r.ret.err = "OK"
        /\ Node(r, 1, x.newParent).links[Basename(FsResolve(w, 1, new))] = x.node

RenameOnto(w, old, new) ==
    LET k == RenameKinds(w, old, new)
    IN  /\ k = <<"D", "D">> => RenameRefused(w, old, new, "ENOTEMPTY")
        /\ k = <<"D", "F">> => RenameRefused(w, old, new, "ENOTDIR")
        /\ k[1] = "F" /\ k[2] \in {"D", "E"} => RenameRefused(w, old, new, "EISDIR")
        /\ k \in {<<"D", "E">>, <<"F", "F">>} => RenameReplaces(w, old, new)

\* C21: rename(old, new) onto an existing target: a directory onto a
\* directory with entries fails with ENOTEMPTY, a directory onto a
\* non-directory with ENOTDIR, a non-directory onto a directory with EISDIR,
\* each without changing a link map; a directory onto an empty directory and
\* a non-directory onto a non-directory succeed and replace the target entry.
RenameOntoExisting == \A old \in Paths, new \in Paths : RenameOnto(W, old, new)

(***************************************************************************)
(* open that fails.                                                        *)
(***************************************************************************)
OpenFlags ==
    {acc + c + e + d : acc \in {O_RDONLY, O_WRONLY, O_RDWR}, c \in {0, O_CREAT},
                       e \in {0, O_EXCL}, d \in {0, O_DIRECTORY}}

\* World r has the descriptors, the inodes and the directory entries of
\* world w.  The entries of a mounted directory that the walk of the path
\* read for the first time are in r; they are the only inodes r has more.
NothingOpened(r, w) ==
    /\ r.fs[1].openFiles = w.fs[1].openFiles
    /\ r.fdCount = w.fdCount
    /\ r.bufs = w.bufs
    /\ LinkMapsKept(r, w)
    /\ \A i \in DOMAIN r.inodes[1] :
          i \notin DOMAIN w.inodes[1] => r.inodes[1][i].source # NoSource

OpenRefused(w, p, flags, code) ==
    /\ OpenSync(w, 1, p, flags, 438).ret.err = code
    /\ NothingOpened(OpenSync(w, 1, p, flags, 438), w)

\* The case of the claim that open(p, flags) on world w is: the path
\* resolves and O_EXCL is set; the path does not resolve and O_CREAT is not
\* set; a directory is opened for writing; a regular file is opened with
\* O_DIRECTORY.  O_EXCL goes first, as a call can be in two cases.
OpenCase(w, p, flags) ==
    LET entry == Walk(w, 1, FsResolve(w, 1, p), Has(flags, O_NOFOLLOW))
    IN  IF entry.kind = "none"
        THEN (IF Has(flags, O_CREAT) THEN "OK" ELSE "ENOENT")
        ELSE IF entry.kind # "ok" THEN "OK"
        ELSE IF Has(flags, O_EXCL) THEN "EEXIST"
        ELSE IF Has(flags, O_DIRECTORY) /\ isFileInode(Node(entry.w, 1, entry.node))
        THEN "ENOTDIR"
        ELSE IF AccMode(flags) # O_RDONLY /\ isDirectoryInode(Node(entry.w, 1, entry.node))
        THEN "EISDIR"
        ELSE "OK"

Unlisted(node) ==
    [node EXCEPT !.hasLinks = TRUE, !.links = NoLinks, !.source = NoSource,
                 !.resolver = FALSE]

\* World r has the inodes of world w as they were, with their link maps and
\* link counts.
DirectoriesKept(r, w) ==
    /\ LinkMapsKept(r, w)
    /\ \A i \in DOMAIN w.inodes[1] : Unlisted(r.inodes[1][i]) = Unlisted(w.inodes[1][i])

\* The final component of p is a directory (a symlink is not followed).
EndsInDirectory(w, p) ==
    LET Found(r) == r.kind = "ok" /\ isDirectoryInode(Node(r.w, 1, r.node))
    IN  Found(Lfind(w, 1, FsResolve(w, 1, p)))

\* p resolves to a directory with at least one entry.
DirectoryWithEntries(w, p) ==
    LET Listed(r) ==
            /\ r.kind = "ok"
            /\ isDirectoryInode(Node(r.w, 1, r.node))
            /\ LinksSize(Node(GetLinks(r.w, 1, r.node), 1, r.node).links) > 0
    IN  Listed(Find(w, 1, FsResolve(w, 1, p)))

\* C23: unlink of a path whose final component is a directory fails with
\* EISDIR and rmdir of a directory with at least one entry fails with
\* ENOTEMPTY; both leave the directory, its entries and every link count as
\* they were.
DirectoryRemovalRefused ==
    \A p \in ProbePaths :
        /\ EndsInDirectory(W, p)
              => /\ UnlinkSync(W, 1, p).ret.err = "EISDIR"
                 /\ DirectoriesKept(UnlinkSync(W, 1, p), W)
        /\ DirectoryWithEntries(W, p)
              => /\ RmdirSync(W, 1, p).ret.err = "ENOTEMPTY"
                 /\ DirectoriesKept(RmdirSync(W, 1, p), W)

\* unlink has just removed a name, and a directory with an entry is left.
DirectoryWithEntryLeft ==
    /\ ret.op = "unlink" /\ ret.err = "OK"
    /\ \E p \in FilePaths : EndsInDirectory(W, p) /\ DirectoryWithEntries(W, p)

(***************************************************************************)
(* Synchronous descriptors.                                                *)
(***************************************************************************)
\* open(p, flags) and then one writeSync of `data` at the start of the file
\* succeed on world w, and before the descriptor is closed readFile(p) gives
\* the written bytes first and stat(p) a size that covers them.
WriteSeenAtOnce(w, p, flags, data) ==
    LET Written(r2) ==
            r2.ret.err = "OK"
                => /\ Seen(r2, 1, p).err = "OK"
                   /\ Len(Seen(r2, 1, p).data) >= Len(data)
                   /\ SubSeq(Seen(r2, 1, p).data, 1, Len(data)) = data
                   /\ Seen(r2, 1, p).size = Len(Seen(r2, 1, p).data)
        Opened(r1) ==
            r1.ret.err = "OK"
                => Written(WriteSync(r1, 1, r1.ret.n, data, 0, Len(data), 0))
    IN  Opened(OpenSync(w, 1, p, flags, 438))

\* C24: a descriptor opened with the flag string "rs+" is synchronous, as one
\* opened with a numeric mask that has O_SYNC: a writeSync on it is flushed
\* to the inode at once, so stat and later descriptors see the written bytes
\* before the descriptor is closed.
SyncStringFlushes ==
    \A p \in FilePaths, data \in Patches : WriteSeenAtOnce(W, p, ParseFlags("rs+"), data)

(***************************************************************************)
(* SpecSize: a frozen parent with a file and its shadow child.  The child  *)
(* asks for sizes, reads, overwrites, appends and rewrites the parent's    *)
(* file and files of its own, with descriptors that are closed later.      *)
(***************************************************************************)
SizeModes == {ParseFlags("r+"), ParseFlags("a"), ParseFlags("w")}

NextSize ==
    \/ StatPath(2, Paths) /\ Effective
    \/ Open(2, FilePaths, SizeModes) /\ Effective
    \/ Read(2, {0}) /\ Effective
    \/ Write(2, Patches, {-1, 0}) /\ Effective
    \/ Close(2) /\ Effective
    \/ WriteFile(2, FilePaths, Texts) /\ Effective

SpecSize == InitShadow /\ [][NextSize]_vars

\* stat(p).size is the number of bytes readFile(p) returns, for a path that
\* resolves to a regular file in file system f.
SizeIsLength(w, f, p) ==
    StatSync(w, f, p).ret.err = "OK" /\ isFileInode(StatSync(w, f, p).ret.stat)
        => /\ Seen(w, f, p).err = "OK"
           /\ Seen(w, f, p).size = Len(Seen(w, f, p).data)

\* C25: in every reachable state, for every path that resolves to a regular
\* file, stat(p).size is the number of bytes that readFile(p) returns: for
\* files made in the file system and files shadowed from a parent, before and
\* after a close flushes writes (and also while a descriptor holds writes
\* that are not flushed yet).
SizeMatchesContents == \A f \in {1, 2}, p \in Paths : SizeIsLength(W, f, p)

\* The child has just closed a descriptor that flushed a longer content into
\* a file shadowed from the parent, whose size the child had asked before.
FlushedLongerShadowFile ==
    /\ ret.op = "close" /\ ret.fs = 2 /\ ret.err = "OK"
    /\ \E p \in Paths :
          /\ SharedFile(W, p)
          /\ Seen(W, 2, p).err = "OK" /\ Seen(W, 1, p).err = "OK"
          /\ Seen(W, 2, p).size > Seen(W, 1, p).size
          /\ Node(W, 2, StatSync(W, 2, p).ret.stat.ino).size # -1

(***************************************************************************)
(* Closing a descriptor that was only read.                                *)
(***************************************************************************)
\* What stat and readFile show of the file at p: contents, size and mtime.
Shown(w, p) ==
    [file |-> Seen(w, 1, p), mtimeMs |-> StatSync(w, 1, p).ret.stat.mtimeMs]

\* On world w: p is opened read-only and read once, `others` is what the
\* rest of the program does then, and the descriptor is closed.  The close
\* leaves the contents, the size and the mtime of the file as they were.
ReaderCloseKeeps(w, p, others) ==
    LET Closing(r3, fd) ==
            r3.ret.err = "OK"
                => /\ CloseSync(r3, 1, fd).ret.err = "OK"
                   /\ Shown(CloseSync(r3, 1, fd), p) = Shown(r3, p)
        Reading(r2, fd) ==
            r2.ret.err = "OK"
                => /\ others = <<>> => Closing(r2, fd)
                   /\ others # <<>>
                         => Closing(WriteFileSync(r2, 1, p, others[1], ParseFlags("w")), fd)
        Opened(r1) ==
            r1.ret.err = "OK" /\ isFileInode(StatSync(w, 1, p).ret.stat)
                => Reading(ReadSync(r1, 1, r1.ret.n, MaxLen, 0, MaxLen, 0), r1.ret.n)
    IN  Opened(OpenSync(w, 1, p, O_RDONLY, 438))

\* C26: closing a descriptor on which no writeSync was performed and that
\* was opened without O_TRUNC never changes the contents, the size or the
\* mtime of the inode, also when another descriptor wrote to the same file
\* and was closed between this descriptor's first readSync and its close.
UnwrittenCloseChangesNothing ==
    \A p \in FilePaths :
        /\ ReaderCloseKeeps(W, p, <<>>)
        /\ \A data \in Texts : ReaderCloseKeeps(W, p, <<data>>)

(***************************************************************************)
(* Link maps and incomingLinks.                                            *)
(***************************************************************************)
\* The entries that the incomingLinks of inode i record: <<d, n>> for name n
\* in the link map of directory d (0: the map of the roots).
EntriesRecorded(i) ==
    {e \in (0..MaxIno) \X AllNames : e[2] \in inodes[1][i].incomingLinks[e[1]]}

\* C27: in every reachable state the link maps and the incomingLinks sets
\* agree: d.links[n] = x exactly when n is in x.incomingLinks[d], for every
\* directory d (or the root map), name n and inode x; hence x.nlink is the
\* number of directory entries that map to x.  Every operation keeps this,
\* rename(p, p) and rmdir through a symlink included.
LinkMapsMatchIncoming ==
    \A i \in DOMAIN inodes[1] :
        /\ EntriesNaming(i) = EntriesRecorded(i)
        /\ inodes[1][i].nlink = Cardinality(EntriesNaming(i))

(***************************************************************************)
(* open that creates a file.                                               *)
(***************************************************************************)
\* World w with the link map of every mounted directory read.
AllRead(w) ==
    LET RECURSIVE ReadAll(_, _)
        ReadAll(w1, is) ==
            IF is = {} THEN w1
            ELSE LET i == CHOOSE x \in is : TRUE
                 IN  ReadAll(IF isDirectoryInode(Node(w1, 1, i)) THEN GetLinks(w1, 1, i)
                             ELSE w1,
                             is \ {i})
    IN  ReadAll(w, DOMAIN w.inodes[1])

\* All directory entries of world w: <<d, n, x>> for name n that maps to
\* inode x in the link map of directory d (0: the map of the roots).
EntriesOf(w) ==
    {<<0, n, w.fs[1].links[n]>> : n \in {m \in AllNames : w.fs[1].links[m] # 0}}
        \cup {<<e[1], e[2], w.inodes[1][e[1]].links[e[2]]>> :
                e \in {x \in (DOMAIN w.inodes[1]) \X AllNames :
                          w.inodes[1][x[1]].links[x[2]] # 0}}

\* open(p, flags) with O_CREAT on a path that does not resolve in world w,
\* when it succeeds, adds one directory entry and leaves every other entry.
CreateAddsOneEntry(w, p, flags) ==
    LET r == OpenSync(w, 1, p, flags, 438)
    IN  Find(w, 1, FsResolve(w, 1, p)).kind = "none" /\ r.ret.err = "OK"
            => /\ EntriesOf(w) \subseteq EntriesOf(r)
               /\ Cardinality(EntriesOf(r) \ EntriesOf(w)) = 1

\* C28: open with O_CREAT on a path that does not resolve adds exactly one
\* new directory entry and never removes or replaces an existing directory
\* entry, also when the final component of the path is a symlink whose
\* target does not exist.
CreateKeepsEntries ==
    \A p \in ProbePaths, flags \in {O_WRONLY + O_CREAT, O_RDWR + O_CREAT + O_EXCL} :
        CreateAddsOneEntry(AllRead(W), p, flags)

(***************************************************************************)
(* Termination.  The loop of _walk is counted pass by pass.  The recursion *)
(* of _invalidatePaths that does not come to an end is the outcome         *)
(* "RangeError" of the call that ran it.                                   *)
(***************************************************************************)
\* The passes through the loop of _walk until it returns or throws, counted
\* up to `most`.
RECURSIVE WalkPasses(_, _, _, _)
WalkPasses(st, noFollow, n, most) ==
    IF st.kind # "walk" \/ n >= most THEN n
    ELSE WalkPasses(WalkStep(st, 1, noFollow), noFollow, n + 1, most)

\* No walk takes more passes than this: one per component of the longest
\* path between two expansions, for LoopBudget expansions and the last scan.
MostPasses == (LoopBudget + 1) * (2 * (MaxLen + 2) + 1)

WalkEnds(w, path, noFollow) ==
    WalkPasses(WalkState(GetRootLinks(w, 1), "walk", "OK", 0, 0, path, 1, 0, 0),
               noFollow, 0, MostPasses) < MostPasses

\* The recursion of _invalidatePaths in call r came to an end.
Returns(r) == r.ret.err # "RangeError"

\* C29: every operation terminates: _walk ends after finitely many passes
\* for every path and every symlink structure, and rmdir, link, unlink and
\* rename, which run _invalidatePaths over the subtree of the node, come to
\* an end on every reachable directory graph, also after a rename of a
\* directory to a path inside itself.
EveryOperationTerminates ==
    /\ \A path \in ProbePaths, noFollow \in BOOLEAN : WalkEnds(W, path, noFollow)
    /\ \A p \in Paths :
          /\ Returns(RmdirSync(W, 1, p))
          /\ Returns(UnlinkSync(W, 1, p))
          /\ \A q \in Paths : Returns(LinkSync(W, 1, p, q)) /\ Returns(RenameSync(W, 1, p, q))

(***************************************************************************)
(* SpecTime: directories and files are made and renamed while the time     *)
(* source of the file system moves on.                                     *)
(***************************************************************************)
NextTime ==
    \/ Mkdir(1, FilePaths) /\ Effective
    \/ Open(1, Others, CreateFlags) /\ Effective
    \/ Close(1) /\ Effective
    \/ Rename(1, FilePaths, Paths) /\ Effective
    \/ Tick /\ Effective

SpecTime == InitIO /\ [][NextTime]_vars

\* After a successful rename(old, new) on world w the two parent directories
\* have the current time as mtime and a replaced target has it as ctime.
RenameStampsOthers(w, old, new) ==
    LET x == RenameFinds(w, old, new)
        r == RenameSync(w, 1, old, new)
    IN  r.ret.err = "OK"
            => /\ Node(r, 1, x.oldParent).mtimeMs = Time(w)
               /\ Node(r, 1, x.newParent).mtimeMs = Time(w)
               /\ x.existingNode # 0 => Node(r, 1, x.existingNode).ctimeMs = Time(w)

\* After a successful rename(old, new) on world w the moved inode has the
\* current time as ctime.
RenameStampsMoved(w, old, new) ==
    LET x == RenameFinds(w, old, new)
        r == RenameSync(w, 1, old, new)
    IN  r.ret.err = "OK" => Node(r, 1, x.node).ctimeMs = Time(w)

\* C30: after a successful rename(old, new) the old parent directory, the
\* new parent directory and the moved inode all carry the current time
\* (mtime on the two parents, ctime on the moved inode), and a replaced
\* target inode carries the current ctime.
RenameStampsTimes ==
    \A old \in Paths, new \in Paths :
        RenameStampsOthers(W, old, new) /\ RenameStampsMoved(W, old, new)

(***************************************************************************)
(* The mode of a symlink.                                                  *)
(***************************************************************************)
\* After a successful symlink(t, p) on world w, lstat(p) reports a symlink
\* with the permission bits `perm`.  The link paths are those that name an
\* entry of a directory (LinkPaths): a root has no name in its parent.
LinkPaths == ProbePaths \ {<<RootName>>}

SymlinkHasMode(w, t, p, perm) ==
    LET Made(r) ==
            r.ret.err = "OK"
                => /\ LstatSync(r, 1, p).ret.err = "OK"
                   /\ TypeBits(LstatSync(r, 1, p).ret.stat.mode) = S_IFLNK
                   /\ PermBits(LstatSync(r, 1, p).ret.stat.mode) = perm
    IN  Made(SymlinkSync(w, 1, t, p))

BothWritesKept(w, p, x, y, firstFirst) ==
    LET Closed(r6) ==
            r6.ret.err = "OK"
                => /\ Seen(r6, 1, p).err = "OK"
                   /\ Len(Seen(r6, 1, p).data) >= 2
                   /\ Seen(r6, 1, p).data[1] = x
                   /\ Seen(r6, 1, p).data[2] = y
        Closing(r5, fd) == r5.ret.err = "OK" => Closed(CloseSync(r5, 1, fd))
        Written(r4, fd1, fd2) ==
            r4.ret.err = "OK"
                => IF firstFirst THEN Closing(CloseSync(r4, 1, fd1), fd2)
                   ELSE Closing(CloseSync(r4, 1, fd2), fd1)
        Writing(r3, fd1, fd2) ==
            r3.ret.err = "OK"
                => Written(WriteSync(r3, 1, fd2, <<y>>, 0, 1, 1), fd1, fd2)
        Second(r2, fd1) ==
            r2.ret.err = "OK"
                => Writing(WriteSync(r2, 1, fd1, <<x>>, 0, 1, 0), fd1, r2.ret.n)
        First(r1) ==
            r1.ret.err = "OK" => Second(OpenSync(r1, 1, p, O_RDWR, 438), r1.ret.n)
    IN  First(OpenSync(w, 1, p, O_RDWR, 438))

RmdirRemovesIt(w, p) ==
    LET Gone(r, d) ==
            r.ret.err = "OK"
                => /\ \A e \in EntriesOf(r) : e[3] # d
                   /\ Find(r, 1, FsResolve(r, 1, p)).kind = "ok"
                         => Find(r, 1, FsResolve(r, 1, p)).node # d
                   /\ {e \in EntriesOf(w) : e[3] # d} \subseteq EntriesOf(r)
        Found(q) == q.kind = "ok" => Gone(RmdirSync(w, 1, p), q.node)
    IN  Found(Find(w, 1, FsResolve(w, 1, p)))

\* C33: after rmdir(p) returns successfully, the directory inode that p
\* resolved to is no longer present in any link map and p no longer resolves
\* to it, and no other directory entry has been removed; this holds also
\* when p is a root and when the final component of p is a symlink to an
\* empty directory.
RmdirRemovesOnlyTheDirectory ==
    \A p \in Paths : RmdirRemovesIt(AllRead(W), p)

(***************************************************************************)
(* SpecLinked: a frozen file system (1) that holds one file under two      *)
(* names in two directories, /b and /a/b, and a shadow of it (2), in which *)
(* the file is stat'ed, opened, read, written, closed, chmod'ed, unlinked  *)
(* and rewritten through either name.                                      *)
(***************************************************************************)
HardPaths == {<<RootName, "b">>, <<RootName, "a", "b">>}

LinkedParent ==
    LinkSync(WriteFileSync(MkdirSync(RootOnly, 1, <<RootName, "a">>, 511), 1,
                           <<RootName, "b">>, <<1>>, ParseFlags("w")),
             1, <<RootName, "b">>, <<RootName, "a", "b">>)

InitLinked == Start(Gc(Shadow(MakeReadonly(LinkedParent, 1), 1, 2)))

NextLinked ==
    \/ StatPath(2, HardPaths) /\ Effective
    \/ Open(2, HardPaths, ShadowModes) /\ Effective
    \/ Read(2, {0}) /\ Effective
    \/ Write(2, Patches, {0}) /\ Effective
    \/ Close(2) /\ Effective
    \/ Chmod(2, HardPaths) /\ Effective
    \/ Unlink(2, HardPaths) /\ Effective
    \/ WriteFile(2, HardPaths, Texts) /\ Effective

SpecLinked == InitLinked /\ [][NextLinked]_vars

\* p and q are names of one file of the parent, and both still name it in
\* the child.
LinkedNames(w, p, q) ==
    /\ SharedFile(w, p) /\ SharedFile(w, q)
    /\ StatSync(w, 1, p).ret.stat.ino = StatSync(w, 1, q).ret.stat.ino

\* In the child of world w, p and q name one inode: they show the same
\* bytes and the same Stats, and what writeFile and chmod do through p is
\* what q shows.
OneShadow(w, p, q) ==
    LET Wrote(w1, Y) ==
            w1.ret.err = "OK"
                => Seen(w1, 2, q).err = "OK" /\ Seen(w1, 2, q).data = Y
        Changed(w1, mode) ==
            w1.ret.err = "OK"
                => PermBits(StatSync(w1, 2, q).ret.stat.mode) = PermBits(mode)
    IN  /\ Seen(w, 2, p) = Seen(w, 2, q)
        /\ StatSync(w, 2, p).ret.stat = StatSync(w, 2, q).ret.stat
        /\ \A Y \in Datas : Wrote(WriteFileSync(w, 2, p, Y, ParseFlags("w")), Y)
        /\ \A mode \in Modes : Changed(ChmodSync(w, 2, p, mode), mode)

\* C34: within one shadow child every parent inode has at most one shadow
\* inode: two names that are hard links of one inode in the parent resolve
\* to one and the same inode in the child, so a write or chmod through one
\* name in the child is visible through the other, and a lookup repeated
\* after any child operations returns the same shadow.
HardLinksShareShadow ==
    \A p \in HardPaths, q \in HardPaths : LinkedNames(W, p, q) => OneShadow(W, p, q)

\* The child has just rewritten the file, and both names show the new bytes,
\* which are not the parent's.
ChildWroteLinkedFile ==
    /\ ret.op = "writeFile" /\ ret.fs = 2 /\ ret.err = "OK"
    /\ LinkedNames(W, <<RootName, "b">>, <<RootName, "a", "b">>)
    /\ \A p \in HardPaths :
          Seen(W, 2, p).err = "OK" /\ Seen(W, 2, p).data # Seen(W, 1, p).data

(***************************************************************************)
(* SpecRaise: a mounted directory whose resolver may raise an error.  A    *)
(* call of readdirSync or readFileSync is either answered by the resolver, *)
(* as in SpecMount, or the resolver raises when the call asks it for the   *)
(* entries of the directory or for the bytes of the file.                  *)
(***************************************************************************)
\* The node is answered by the resolver of a mount.
FromResolver(node) == node.source # NoSource /\ node.resolver

\* _getLinks of mount directory i when resolver.readdirSync raises: the
\* source and the resolver are taken out of the node before the call, and no
\* link map is stored.
GetLinksRaised(w, f, i) ==
    [w EXCEPT !.inodes[f][i].source = NoSource,
              !.inodes[f][i].resolver = FALSE,
              !.calls.readdirSync = @ + 1]

\* _getBuffer of mount file i when resolver.readFileSync raises: the source,
\* the resolver and the size are taken out of the node before the call, and
\* no buffer is stored.
GetBufferRaised(w, f, i) ==
    [w EXCEPT !.inodes[f][i].source = NoSource,
              !.inodes[f][i].resolver = FALSE,
              !.inodes[f][i].size = -1,
              !.calls.readFileSync = @ + 1]

\* readdirSync(path) when the resolver raises as the entries of the
\* directory are asked for.
ReaddirSyncRaised(w, f, path0) ==
    LET Found(r) ==
            IF r.kind = "ok" /\ isDirectoryInode(Node(r.w, f, r.node))
               /\ ~Node(r.w, f, r.node).hasLinks /\ FromResolver(Node(r.w, f, r.node))
            THEN Ret(GetLinksRaised(r.w, f, r.node), "readdir", f, "ResolverError")
            ELSE ReaddirSync(w, f, path0)
    IN  Found(Find(w, f, FsResolve(w, f, path0)))

\* readFileSync(path) when the resolver raises as the bytes of the file are
\* asked for: the descriptor is opened, readSync sets its offset and raises
\* in _getBuffer, and the descriptor is closed on the way out.
ReadFileSyncRaised(w, f, path) ==
    LET Raised(w2, fd, i) ==
            Ret(CloseSync(GetBufferRaised([w2 EXCEPT !.fs[f].openFiles[fd].offset = 0],
                                          f, i),
                          f, fd),
                "readFile", f, "ResolverError")
        Sized(w2, fd, i) ==
            IF w2.ret.stat.size > 0 /\ Node(w2, f, i).buffer = 0 /\ FromResolver(Node(w2, f, i))
            THEN Raised(w2, fd, i)
            ELSE ReadFileSync(w, f, path, ParseFlags("r"))
        Opened(w1) ==
            IF w1.ret.err # "OK" \/ ~isFileInode(Node(w1, f, w1.fs[f].openFiles[w1.ret.n].node))
            THEN ReadFileSync(w, f, path, ParseFlags("r"))
            ELSE Sized(FstatSync(w1, f, w1.ret.n), w1.ret.n, w1.fs[f].openFiles[w1.ret.n].node)
    IN  Opened(OpenSync(w, f, path, ParseFlags("r"), 438))

ReaddirRaised(f, ps) ==
    /\ fs[f].live
    /\ \E p \in ps : Commit(ReaddirSyncRaised(W, f, p))

ReadFileRaised(f, ps) ==
    /\ fs[f].live
    /\ \E p \in ps : Commit(ReadFileSyncRaised(W, f, p))

NextRaise ==
    \/ Mkdir(1, {<<RootName>>}) /\ Effective
    \/ Mount(1, FilePaths) /\ Effective
    \/ StatPath(1, ProbePaths)
    \/ ReaddirPath(1, Paths)
    \/ ReadFile(1, ProbePaths)
    \/ ReaddirRaised(1, FilePaths)
    \/ ReadFileRaised(1, ProbePaths)

SpecRaise == Init /\ [][NextRaise]_vars

\* readdir(p) in which the resolver raised leaves the directory as it was:
\* the next readdir(p) asks the resolver again and lists what the resolver
\* lists.
RaisedReaddirKeeps(w, p) ==
    LET Asking(r) ==
            r.ret.err = "ResolverError"
                => /\ ReaddirSync(Quiet(r), 1, p).calls.readdirSync = 1
                   /\ ReaddirSync(Quiet(r), 1, p).ret = ReaddirSync(w, 1, p).ret
    IN  Asking(ReaddirSyncRaised(w, 1, p))

\* readFile(p) in which the resolver raised leaves the file as it was: the
\* next readFile(p) asks the resolver again and returns the resolver's bytes
\* and size.
RaisedReadFileKeeps(w, p) ==
    LET Asking(r) ==
            r.ret.err = "ResolverError"
                => /\ ReadFileSync(Quiet(r), 1, p, ParseFlags("r")).calls.readFileSync = 1
                   /\ Seen(r, 1, p) = Seen(w, 1, p)
    IN  Asking(ReadFileSyncRaised(w, 1, p))

NextWrite ==
    \/ Open(1, Targets, IOModes) /\ Effective
    \/ Read(1, {-1, 0}) /\ Effective
    \/ Write(1, Patches, {-1, 0, 1}) /\ Effective
    \/ Close(1) /\ Effective

SpecWrite == InitIO /\ [][NextWrite]_vars

\* The bytes of descriptor fd in world w: those of its buffer, or of the
\* file's while the descriptor has none.
DescriptorBytes(w, fd) ==
    LET entry == w.fs[1].openFiles[fd]
        Got(g) == g.w.bufs[g.b]
    IN  IF entry.buffer # 0 THEN w.bufs[entry.buffer] ELSE Got(GetBuffer(w, 1, entry.node))

\* writeSync(fd, data, 0, n, position) on world w, when it succeeds, with o
\* the offset it writes at and `old` the descriptor's L bytes: the buffer
\* has max(L, o + n) bytes, data at [o, o + n), the old bytes elsewhere
\* below L and zeros in [L, o); the offset is o + n and n is returned.
WritePatches(w, fd, data, position) ==
    LET n == Len(data)
        o == IF position = -1 THEN w.fs[1].openFiles[fd].offset ELSE position
        old == DescriptorBytes(w, fd)
        L == Len(old)
        Patched(r, new) ==
            /\ Len(new) = (IF L > o + n THEN L ELSE o + n)
            /\ \A k \in 0..(Len(new) - 1) :
                  new[k + 1] = IF k >= o /\ k < o + n THEN data[k - o + 1]
                               ELSE IF k < L THEN old[k + 1]
                               ELSE 0
            /\ r.fs[1].openFiles[fd].offset = o + n
            /\ r.ret.n = n
        Written(r) ==
            r.ret.err = "OK"
                => /\ r.fs[1].openFiles[fd].buffer # 0
                   /\ Patched(r, r.bufs[r.fs[1].openFiles[fd].buffer])
    IN  Written(WriteSync(w, 1, fd, data, 0, n, position))

\* C36: a writeSync of n > 0 bytes at descriptor offset o on a descriptor
\* buffer of length L yields a buffer of length max(L, o + n) in which bytes
\* [o, o + n) are the written data, all other bytes below L are preserved
\* and bytes in [L, o) are zero; the descriptor offset becomes o + n and n is
\* returned.
WriteSyncPatches ==
    \A fd \in DOMAIN fs[1].openFiles, data \in Datas \ {<<>>},
       position \in -1..(MaxLen + 1) :
        WritePatches(W, fd, data, position)

\* A write beyond the end of the descriptor's bytes has just left a zero
\* before the byte it wrote.
WroteBeyondEnd ==
    /\ ret.op = "write" /\ ret.err = "OK" /\ ret.n = 1
    /\ \E fd \in DOMAIN fs[1].openFiles :
          /\ fs[1].openFiles[fd].buffer # 0
          /\ fs[1].openFiles[fd].offset = 2
          /\ Len(bufs[fs[1].openFiles[fd].buffer]) = 2
          /\ bufs[fs[1].openFiles[fd].buffer][1] = 0
          /\ bufs[fs[1].openFiles[fd].buffer][2] # 0

(***************************************************************************)
(* What mkdirp leaves at the path.                                         *)
(***************************************************************************)
\* mkdirp(p) on world w, when it returns without error, leaves a directory
\* at p (a final symlink is followed).
MkdirpLeavesDirectory(w, p) ==
    LET Made(r) ==
            r.ret.err = "OK"
                => /\ StatSync(r, 1, p).ret.err = "OK"
                   /\ isDirectoryInode(StatSync(r, 1, p).ret.stat)
    IN  Made(MkdirpSync(w, 1, p, 511))

AppendModes == {ParseFlags("a"), ParseFlags("r+"), ParseFlags("a+")}

AppendFile(f, ps, datas) ==
    /\ fs[f].live
    /\ \E p \in ps, data \in datas : Commit(WriteFileSync(W, f, p, data, ParseFlags("a")))

NextAppend ==
    \/ Open(1, Targets, AppendModes) /\ Effective
    \/ Write(1, Patches, {-1, 0}) /\ Effective
    \/ Close(1) /\ Effective
    \/ AppendFile(1, Targets, Patches) /\ Effective

SpecAppend == InitIO /\ [][NextAppend]_vars

\* The flags of the open calls: those of the flag strings, and the access
\* modes with O_APPEND, O_TRUNC, both and none.
OffsetFlags ==
    {ParseFlags(x) : x \in {"r", "r+", "w", "w+", "a", "a+", "ax", "wx"}}
        \cup {acc + app + trunc : acc \in {O_RDONLY, O_WRONLY, O_RDWR},
                                  app \in {0, O_APPEND}, trunc \in {0, O_TRUNC}}

\* open(p, flags) on world w, when it succeeds, gives a descriptor whose
\* offset is the size of the file when p named a regular file and the flags
\* have O_APPEND and not O_TRUNC, and 0 otherwise.
OpensAt(w, p, flags) ==
    LET existing == Seen(w, 1, p).stat = "OK" /\ isFileInode(StatSync(w, 1, p).ret.stat)
        Opened(r) ==
            r.ret.err = "OK"
                => r.fs[1].openFiles[r.ret.n].offset
                      = IF existing /\ Has(flags, O_APPEND) /\ ~Has(flags, O_TRUNC)
                        THEN Seen(w, 1, p).size ELSE 0
    IN  Opened(OpenSync(w, 1, p, flags, 438))

\* writeFile(p, Y) with flag "a" on a file that holds X leaves X followed by Y.
Appends(w, p, Y) ==
    LET Wrote(r) == /\ r.ret.err = "OK"
                    /\ Seen(r, 1, p).err = "OK"
                    /\ Seen(r, 1, p).data = Seen(w, 1, p).data \o Y
                    /\ Seen(r, 1, p).size = Seen(w, 1, p).size + Len(Y)
    IN  Seen(w, 1, p).err = "OK" => Wrote(WriteFileSync(w, 1, p, Y, ParseFlags("a")))

\* C38: a descriptor's initial offset is the file's current size exactly
\* when the node is a regular file and the flags contain O_APPEND and not
\* O_TRUNC, and 0 in every other case (including a file just created by
\* O_CREAT); hence writeFile(p, Y) with flag 'a' on an existing file with
\* content X leaves the content X followed by Y.
AppendStartsAtEnd ==
    /\ \A p \in Paths, flags \in OffsetFlags : OpensAt(W, p, flags)
    /\ \A p \in FilePaths, Y \in Datas : Appends(W, p, Y)

\* writeFile with flag "a" has just made a file of one byte a file of two.
AppendedToFile ==
    /\ ret.op = "writeFile" /\ ret.err = "OK"
    /\ \E p \in Targets :
          /\ Seen(W, 1, p).err = "OK"
          /\ Seen(W, 1, p).size = 2
          /\ OpenSync(W, 1, p, ParseFlags("a"), 438).ret.err = "OK"
          /\ OpenSync(W, 1, p, ParseFlags("a"), 438).fs[1].openFiles[fdCount + 1].offset = 2

(***************************************************************************)
(* open with O_TRUNC and close without a write.                            *)
(***************************************************************************)
TruncFlags == {O_WRONLY + O_TRUNC, O_RDWR + O_TRUNC}

\* In world r the file p is empty for stat and readFile.
EmptyForStat(r, p) ==
    /\ Seen(r, 1, p).err = "OK" /\ Seen(r, 1, p).stat = "OK"
    /\ Seen(r, 1, p).size = 0 /\ Seen(r, 1, p).data = <<>>

\* In world r the file is empty for the descriptors `fds`: fstat gives size
\* 0, and those that may read read nothing at position 0.
EmptyForDescriptors(r, fds) ==
    \A fd \in fds :
        /\ FstatSync(r, 1, fd).ret.stat.size = 0
        /\ ReadSync(r, 1, fd, MaxLen, 0, MaxLen, 0).ret.err = "OK"
              => ReadSync(r, 1, fd, MaxLen, 0, MaxLen, 0).ret.n = 0

\* The descriptors of world w that are open on the file p.
DescriptorsOn(w, p) ==
    {fd \in DOMAIN w.fs[1].openFiles : w.fs[1].openFiles[fd].node = FileAt(w, 1, p)}

\* open(p, flags) with O_TRUNC on the regular file p of world w and close
\* without a write: after the close the file is empty for stat and for the
\* other descriptors, and with O_SYNC already after the open.
TruncatesAtClose(w, p, flags) ==
    LET others == DescriptorsOn(w, p)
        Closed(r2) ==
            r2.ret.err = "OK" /\ EmptyForStat(r2, p) /\ EmptyForDescriptors(r2, others)
        Opened(r1) ==
            r1.ret.err = "OK"
                => /\ Closed(CloseSync(r1, 1, r1.ret.n))
                   /\ Has(flags, O_SYNC)
                         => EmptyForStat(r1, p) /\ EmptyForDescriptors(r1, others)
    IN  FileAt(w, 1, p) # 0 => Opened(OpenSync(w, 1, p, flags, 438))

FileTypes == {S_IFDIR, S_IFREG, S_IFLNK}

Axes == {"ancestors", "ancestors-or-self", "self", "descendants-or-self", "descendants"}

Traversals == {[accept |-> FileTypes, traverse |-> FileTypes],
               [accept |-> {S_IFLNK}, traverse |-> FileTypes],
               [accept |-> {S_IFDIR}, traverse |-> {S_IFDIR}]}

RECURSIVE ScanAxis(_, _, _, _, _, _, _, _)
RECURSIVE ScanFiles(_, _, _, _, _, _, _, _)

\* _scan: `acc` holds the results so far and the directories gone through;
\* err is what the call throws.
ScanAxis(w, f, path, stats, axis, traversal, noFollow, acc) ==
    LET self == IF axis \in {"ancestors-or-self", "self", "descendants-or-self"}
                   /\ TypeBits(stats.mode) \in traversal.accept
                THEN [acc EXCEPT !.results = @ \o <<path>>] ELSE acc
        dirname == Dirname(path)
        \* an error below the try is ignored, what was pushed stays
        Caught(r) == [r EXCEPT !.err = "OK"]
        Up(s) ==
            IF TypeBits(s.ret.stat.mode) \in traversal.traverse
            THEN Caught(ScanAxis(s, f, dirname, s.ret.stat, "ancestors-or-self",
                                 traversal, noFollow, self))
            ELSE [w |-> s, acc |-> self, err |-> "OK"]
        Ascend(r) ==
            IF r.kind # "ok" THEN [w |-> r.w, acc |-> self, err |-> "OK"]
            ELSE Up(Stat(r.w, f, "scandir", r.node))
        ancestors == IF axis \in {"ancestors-or-self", "ancestors"} /\ dirname # path
                     THEN Ascend(Walk(w, f, dirname, noFollow))
                     ELSE [w |-> w, acc |-> self, err |-> "OK"]
        Listed(r, a) ==
            IF r.ret.err # "OK"
            THEN [w |-> r, acc |-> [a.acc EXCEPT !.traversed = @ \cup {path}],
                  err |-> r.ret.err]
            ELSE ScanFiles(r, f, path, r.ret.names, 1, traversal, noFollow,
                           [a.acc EXCEPT !.traversed = @ \cup {path}])
        Descend(a) ==
            IF axis \in {"descendants-or-self", "descendants"}
               /\ isDirectoryInode(stats) /\ TypeBits(stats.mode) \in traversal.traverse
            THEN Listed(ReaddirSync(a.w, f, path), a)
            ELSE a
    IN  Descend(ancestors)

\* The loop of _scan over readdirSync(path), in the order of the names.
ScanFiles(w, f, path, names, k, traversal, noFollow, acc) ==
    LET childpath == path \o <<NameOrder[k]>>
        Rest(r) == ScanFiles(r.w, f, path, names, k + 1, traversal, noFollow, r.acc)
        Down(s) ==
            Rest(ScanAxis(s, f, childpath, s.ret.stat, "descendants-or-self",
                          traversal, noFollow, acc))
        Child(r) ==
            IF r.kind # "ok" THEN Rest([w |-> r.w, acc |-> acc])
            ELSE Down(Stat(r.w, f, "scandir", r.node))
    IN  IF k > Len(NameOrder) THEN [w |-> w, acc |-> acc, err |-> "OK"]
        ELSE IF NameOrder[k] \notin names
        THEN ScanFiles(w, f, path, names, k + 1, traversal, noFollow, acc)
        ELSE Child(Walk(w, f, childpath, noFollow))

\* The body scanSync and lscanSync share: both take the Stats of the start
\* from statSync.  ret.data holds the results, ret.names the directories
\* gone through.
ScanStart(w, f, op, path0, axis, traversal, noFollow) ==
    LET path == FsResolve(w, f, path0)
        Scanned(r) ==
            IF r.err # "OK" THEN Ret(r.w, op, f, r.err)
            ELSE [RetVal(r.w, op, f, Len(r.acc.results), r.acc.results)
                     EXCEPT !.ret.names = r.acc.traversed]
        Started(s) ==
            IF s.ret.err # "OK" THEN Ret(s, op, f, s.ret.err)
            ELSE Scanned(ScanAxis(s, f, path, s.ret.stat, axis, traversal, noFollow,
                                  [results |-> <<>>, traversed |-> {}]))
    IN  Started(StatSync(w, f, path))

ScanSync(w, f, path0, axis, traversal) ==
    ScanStart(w, f, "scan", path0, axis, traversal, FALSE)

LscanSync(w, f, path0, axis, traversal) ==
    ScanStart(w, f, "lscan", path0, axis, traversal, TRUE)

ScanPath(f, ps) ==
    /\ fs[f].live
    /\ \E p \in ps, axis \in Axes, traversal \in Traversals :
           Commit(ScanSync(W, f, p, axis, traversal))

LscanPath(f, ps) ==
    /\ fs[f].live
    /\ \E p \in ps, axis \in Axes, traversal \in Traversals :
           Commit(LscanSync(W, f, p, axis, traversal))

(***************************************************************************)
(* SpecScan: directories, a symlink /b to /a, and scans.                   *)
(***************************************************************************)
NextScan ==
    \/ Mkdir(1, Paths) /\ Effective
    \/ Symlink(1, Targets, Others) /\ Effective
    \/ ScanPath(1, Paths)
    \/ LscanPath(1, Paths)

SpecScan == Init /\ [][NextScan]_vars

AllFiles == [accept |-> FileTypes, traverse |-> FileTypes]

LinksOnly == [accept |-> {S_IFLNK}, traverse |-> FileTypes]

\* p is a symlink that leads to a directory.
LinkToDirectory(w, p) ==
    /\ LstatSync(w, 1, p).ret.err = "OK" /\ isSymlinkInode(LstatSync(w, 1, p).ret.stat)
    /\ StatSync(w, 1, p).ret.err = "OK" /\ isDirectoryInode(StatSync(w, 1, p).ret.stat)

\* lscan from a symlink p to a directory: the start is reported as a symlink
\* (an accept that takes symlinks only takes it) and the scan does not go
\* through the entries of the target directory; scan does.
LscanStaysAtLink(w, p) ==
    /\ LscanSync(w, 1, p, "descendants-or-self", LinksOnly).ret.err = "OK"
    /\ LscanSync(w, 1, p, "descendants-or-self", LinksOnly).ret.data = <<p>>
    /\ LscanSync(w, 1, p, "descendants-or-self", AllFiles).ret.data = <<p>>
    /\ LscanSync(w, 1, p, "descendants-or-self", AllFiles).ret.names = {}
    /\ LscanSync(w, 1, p, "descendants", AllFiles).ret.names = {}
    /\ p \in ScanSync(w, 1, p, "descendants", AllFiles).ret.names

\* C40: lscanSync treats the final path component with noFollow at every
\* level, the starting path included: when the start path is a symlink to a
\* directory, lscan along a descendants axis reports the start as a symlink
\* and does not traverse into the target directory, whereas scanSync does.
LscanNeverFollows ==
    \A p \in Paths : LinkToDirectory(W, p) => LscanStaysAtLink(W, p)

====
